---- MODULE Spec2Model ----
(***************************************************************************)
(* Model of the nhl-faninsights backend: the staged post-game processing   *)
(* pipeline (app/jobs/game_processor.py), the hourly video sweep           *)
(* (app/scheduler.py) and the roster synchronisation job                   *)
(* (app/jobs/roster_sync.py), over the stored Game, Video, PlayerInfo and  *)
(* PlayerTeamHistory rows.                                                 *)
(*                                                                         *)
(* A nullable column is a sequence of length at most one: <<>> is NULL and *)
(* <<v>> is the value v.                                                   *)
(***************************************************************************)
EXTENDS Integers, Sequences, FiniteSets, TLC

VARIABLES
    games,        \* games table: game_id -> stored Game row
    videos,       \* videos table: set of stored Video rows
    nextVideoId,  \* next value of the videos.id sequence
    now,          \* wall clock read by datetime.utcnow()
    last,         \* outcome of the job that ran last
    triggers,     \* game_id -> whether a stage sequence was scheduled for the game
    history,      \* player_team_history table: set of stored rows
    player_info,  \* player_info table: nhl_player_id -> stored row
    nextHistoryId, \* next value of the player_team_history.id sequence
    today,        \* date.today()
    lastSync,     \* outcome of the roster sync that ran last
    cache,        \* the RedisCache object and the keys the server holds
    lastCall,     \* outcome of the cache call or request that ran last
    requests,     \* the requests in flight: request -> where its handler is
    comments,     \* comments table: id -> stored Comment row
    lastComment   \* outcome of the comment operation that ran last

pipeVars == <<games, videos, nextVideoId, now, last, triggers>>
rosterVars == <<history, player_info, nextHistoryId, today, lastSync>>
apiVars == <<cache, lastCall, requests, comments, lastComment>>
vars == <<games, videos, nextVideoId, now, last, triggers,
          history, player_info, nextHistoryId, today, lastSync,
          cache, lastCall, requests, comments, lastComment>>

None == <<>>
Some(v) == <<v>>

(***************************************************************************)
(* Bounds of the model.                                                    *)
(***************************************************************************)
\* the game ids of the games table
GameIds == DOMAIN games
YoutubeIds == {"v1", "v2"}
MaxTime == 6
MaxRuns == 3
MaxDay == 2

(***************************************************************************)
(* Upstream data.                                                          *)
(***************************************************************************)
\* gameState values of the schedule feed
GameStates == {"FUT", "LIVE", "FINAL", "OFF"}

\* timedelta(hours=2, minutes=30), the clock counting half hours
EstimatedDuration == 5

\* gameDate values of the schedule feed: a kickoff long ago, a kickoff now
GameDates == {0 - 6, 0}

\* one game of the schedule feed; a game that kicked off long ago is over
ScheduleEntries ==
    {e \in [gameState : GameStates, gameDate : GameDates] :
        e.gameState \in {"FUT", "LIVE"} => e.gameDate = 0}

\* A boxscore: scores and per-player statistics by team side and position group.
BoxscoreIds == {"b1", "b2"}

Player(n, g) == [name |-> n, goals |-> g]

BoxscoreData(b) ==
    IF b = "b1"
    THEN [away_score |-> 2, home_score |-> 1,
          stats |-> [awayTeam |-> [forwards |-> <<Player(Some("Celebrini"), 1)>>,
                                   defense  |-> <<Player(Some("Ferraro"), 1)>>,
                                   goalies  |-> <<Player(Some("Blackwood"), 0)>>],
                     homeTeam |-> [forwards |-> <<Player(Some("Kopitar"), 1),
                                                  Player(Some("Kempe"), 0)>>,
                                   defense  |-> <<>>,
                                   goalies  |-> <<Player(Some("Kuemper"), 0)>>]]]
    ELSE [away_score |-> 0, home_score |-> 3,
          stats |-> [awayTeam |-> [forwards |-> <<Player(Some("Toffoli"), 0)>>,
                                   defense  |-> <<>>,
                                   goalies  |-> <<Player(Some("Georgiev"), 0)>>],
                     homeTeam |-> [forwards |-> <<Player(Some("Eklund"), 2),
                                                  Player(None, 1)>>,
                                   defense  |-> <<>>,
                                   goalies  |-> <<Player(Some("Askarov"), 1)>>]]]

\* A play-by-play feed: the ordered plays, each with its type and scorer.
Play(k, s) == [typeDescKey |-> k, scoringPlayerName |-> s]

Pbps == { <<Play("faceoff", "-"), Play("shot", "-")>>,
          <<Play("goal", "Eklund"), Play("shot", "-"), Play("goal", "Celebrini")>> }

\* A video search result: per category, the found video id or nothing.
SearchResults ==
    { [nhl_official |-> n, professor_hockey |-> p] :
        n \in {None, Some("v1")},
        p \in {None} \cup {Some(y) : y \in YoutubeIds} }

\* The inputs of one run of the enrichment stage: a failure before the search
\* returns (early), or the search result, the state of the text generation
\* client and whether the session flushes before a query. Autoflush only
\* shows when both categories return the same video.
EnrichInputs ==
    { in \in [early : BOOLEAN, res : SearchResults, autoflush : BOOLEAN,
              claude : {"ok", "error"}] :
        /\ in.early => /\ in.res = [nhl_official |-> None, professor_hockey |-> None]
                       /\ in.autoflush
                       /\ in.claude = "ok"
        /\ ~in.autoflush => /\ in.res.nhl_official # None
                            /\ in.res.nhl_official = in.res.professor_hockey }


(***************************************************************************)
(* Stored rows.                                                            *)
(***************************************************************************)
\* A Game row as check_upcoming_games (or a season import) creates it.
NewGame(st) ==
    [exists |-> TRUE, status |-> st,
     away_score |-> None, home_score |-> None, scorers |-> <<>>, raw |-> None,
     basic_stats_fetched |-> FALSE, reddit_fetched |-> FALSE,
     videos_fetched |-> FALSE, quotes_fetched |-> FALSE,
     recap_generated |-> FALSE,
     recap_text |-> None, summary_line |-> None,
     status_updated_at |-> None, completed_at |-> None, archived_at |-> None]

\* No row with this game_id.
NoGame == [NewGame("-") EXCEPT !.exists = FALSE]

\* The raw JSON payload: the boxscore it came from (if any) and its "goals" key.
RawPayload(box, goals) == [box |-> box, goals |-> goals]

VideoRow(id, g, y, type) ==
    [id |-> id, game_id |-> g, youtube_id |-> y, video_type |-> type]

\* the videos table without its uniqueness constraint
uq_game_video_dropped(rows) == TRUE

\* UniqueConstraint("game_id", "youtube_id", name="uq_game_video")
uq_game_video(rows) ==
    \A v, w \in rows :
        (v.game_id = w.game_id /\ v.youtube_id = w.youtube_id) => v.id = w.id

\* db.query(Video).filter_by(game_id=..., youtube_id=...).first() is not None
video_exists(rows, g, y) ==
    \E v \in rows : v.game_id = g /\ v.youtube_id = y

\* Position of a status in the lifecycle SCHEDULED -> LIVE -> FINAL/OFF -> COMPLETE -> ARCHIVED.
StatusRank(st) ==
    CASE st = "SCHEDULED" -> 0
      [] st = "LIVE"      -> 1
      [] st = "FINAL"     -> 2
      [] st = "OFF"       -> 2
      [] st = "COMPLETE"  -> 3
      [] st = "ARCHIVED"  -> 4
      [] OTHER            -> 0

(***************************************************************************)
(* T+0: process_game_immediate.                                            *)
(***************************************************************************)
RECURSIVE NamesWithGoals(_)
\* names of the players of one position group with goals > 0 and a name
NamesWithGoals(players) ==
    IF players = <<>> THEN <<>>
    ELSE LET p == Head(players)
         IN  (IF p.goals > 0 /\ p.name # None THEN <<p.name[1]>> ELSE <<>>)
             \o NamesWithGoals(Tail(players))

\* the scorer loop of process_game_immediate: both sides, forwards and defense
ExtractScorers(stats) ==
    NamesWithGoals(stats.awayTeam.forwards) \o NamesWithGoals(stats.awayTeam.defense)
    \o NamesWithGoals(stats.homeTeam.forwards) \o NamesWithGoals(stats.homeTeam.defense)

\* services.transform_boxscore: scores and the scorers of both sides over
\* forwards, defense and goalies
transform_boxscore(raw) ==
    [away_score |-> raw.away_score, home_score |-> raw.home_score,
     scorers |->
        NamesWithGoals(raw.stats.awayTeam.forwards)
        \o NamesWithGoals(raw.stats.awayTeam.defense)
        \o NamesWithGoals(raw.stats.awayTeam.goalies)
        \o NamesWithGoals(raw.stats.homeTeam.forwards)
        \o NamesWithGoals(raw.stats.homeTeam.defense)
        \o NamesWithGoals(raw.stats.homeTeam.goalies)]

\* a T+0 stage that starts the record over, clearing what later stages set
ImmediateRow_starts_over(row, b, t) ==
    [row EXCEPT !.away_score = Some(BoxscoreData(b).away_score),
                !.home_score = Some(BoxscoreData(b).home_score),
                !.scorers = ExtractScorers(BoxscoreData(b).stats),
                !.raw = Some(RawPayload(Some(b), None)),
                !.basic_stats_fetched = TRUE,
                !.reddit_fetched = FALSE,
                !.videos_fetched = FALSE,
                !.quotes_fetched = FALSE,
                !.recap_generated = FALSE,
                !.status = "FINAL",
                !.status_updated_at = Some(t)]

\* the row process_game_immediate commits for boxscore b at time t
ImmediateRow(row, b, t) ==
    [row EXCEPT !.away_score = Some(BoxscoreData(b).away_score),
                !.home_score = Some(BoxscoreData(b).home_score),
                !.scorers = ExtractScorers(BoxscoreData(b).stats),
                !.raw = Some(RawPayload(Some(b), None)),
                !.basic_stats_fetched = TRUE,
                !.status = "FINAL",
                !.status_updated_at = Some(t)]

\* The outcome of a job: how it returned to its caller ("ok": normally,
\* "raised": with an exception, "missing": early, no Game row), the exception
\* that occurred inside it ("none" or where it was raised), a count (the
\* enrichment attempts of archive_game, the return value of
\* check_upcoming_games) and how the retry inside archive_game ended.
Outcome(op, g, result) ==
    [op |-> op, game |-> g, result |-> result, error |-> "none",
     count |-> 0, retry |-> "none", scheduled |-> {}, selected |-> {}, failed |-> {}]

\* fetched = <<b>>: the boxscore the upstream returned; <<>>: the fetch raised
process_game_immediate(g, fetched) ==
        /\ IF ~games[g].exists
           THEN /\ last' = Outcome("immediate", g, "missing")
                /\ games' = games
           ELSE IF fetched = None
           THEN /\ last' = [Outcome("immediate", g, "raised") EXCEPT !.error = "fetch"]
                /\ games' = games
           ELSE /\ last' = Outcome("immediate", g, "ok")
                /\ games' = [games EXCEPT ![g] = ImmediateRow(games[g], fetched[1], now)]
        /\ UNCHANGED <<videos, nextVideoId, now>>
        /\ UNCHANGED triggers
        /\ UNCHANGED <<rosterVars, apiVars>>

(***************************************************************************)
(* T+30min: process_game_detailed_stats.                                   *)
(***************************************************************************)
RECURSIVE extract_goal_details(_)
extract_goal_details(plays) ==
    IF plays = <<>> THEN <<>>
    ELSE (IF Head(plays).typeDescKey = "goal"
          THEN <<[scorer |-> Head(plays).scoringPlayerName]>> ELSE <<>>)
         \o extract_goal_details(Tail(plays))

\* Whether an in-place change of the Game.raw JSON value reaches the store on
\* commit: the stored payload carries the merged goal list.
raw_merge_is_stored == TRUE

\* a T+30min stage that stores the goal list as the whole payload
DetailedStatsRow_replaces_raw(row, goals) ==
    [row EXCEPT !.raw = Some(RawPayload(None, Some(goals)))]

\* the row process_game_detailed_stats commits for the extracted goals
DetailedStatsRow(row, goals) ==
    IF row.raw # None
    THEN IF raw_merge_is_stored
         THEN [row EXCEPT !.raw = Some([row.raw[1] EXCEPT !.goals = Some(goals)])]
         ELSE row
    ELSE [row EXCEPT !.raw = Some(RawPayload(None, Some(goals)))]

\* fetched = <<pbp>>: the play-by-play the upstream returned; <<>>: the fetch raised
process_game_detailed_stats(g, fetched) ==
        /\ IF ~games[g].exists
           THEN /\ last' = Outcome("detailed", g, "missing")
                /\ games' = games
           ELSE IF fetched = None
           THEN /\ last' = [Outcome("detailed", g, "ok") EXCEPT !.error = "fetch"]
                /\ games' = games
           ELSE /\ last' = Outcome("detailed", g, "ok")
                /\ games' = [games EXCEPT ![g] =
                                DetailedStatsRow(games[g], extract_goal_details(fetched[1]))]
        /\ UNCHANGED <<videos, nextVideoId, now>>
        /\ UNCHANGED triggers
        /\ UNCHANGED <<rosterVars, apiVars>>

(***************************************************************************)
(* T+2h and T+12h: process_game_reddit, process_game_quotes.               *)
(***************************************************************************)
\* what the store does at db.commit()
StoreFaults == {"none", "commit"}

RedditRow(row) == [row EXCEPT !.reddit_fetched = TRUE]

\* fault = "commit": db.commit() raises; the stage has no handler around it
process_game_reddit(g, fault) ==
    /\ IF ~games[g].exists
       THEN /\ last' = Outcome("reddit", g, "missing")
            /\ games' = games
       ELSE IF fault = "commit"
       THEN /\ last' = [Outcome("reddit", g, "raised") EXCEPT !.error = "commit"]
            /\ games' = games
       ELSE /\ last' = Outcome("reddit", g, "ok")
            /\ games' = [games EXCEPT ![g] = RedditRow(games[g])]
    /\ UNCHANGED <<videos, nextVideoId, now>>
    /\ UNCHANGED triggers
    /\ UNCHANGED <<rosterVars, apiVars>>

QuotesRow(row) == [row EXCEPT !.quotes_fetched = TRUE]

\* fault = "commit": db.commit() raises; the stage has no handler around it
process_game_quotes(g, fault) ==
    /\ IF ~games[g].exists
       THEN /\ last' = Outcome("quotes", g, "missing")
            /\ games' = games
       ELSE IF fault = "commit"
       THEN /\ last' = [Outcome("quotes", g, "raised") EXCEPT !.error = "commit"]
            /\ games' = games
       ELSE /\ last' = Outcome("quotes", g, "ok")
            /\ games' = [games EXCEPT ![g] = QuotesRow(games[g])]
    /\ UNCHANGED <<videos, nextVideoId, now>>
    /\ UNCHANGED triggers
    /\ UNCHANGED <<rosterVars, apiVars>>

(***************************************************************************)
(* T+4h: process_game_videos_and_recap, run inside one database session.   *)
(***************************************************************************)
\* game.raw.get("goals", []) if game.raw else []
GoalsOf(row) ==
    IF row.raw # None /\ row.raw[1].goals # None THEN row.raw[1].goals[1] ELSE <<>>

FirstScorer(goals) == IF goals = <<>> THEN "-" ELSE goals[1].scorer

\* generate_game_recap: the template when the client is not configured, the
\* generated text when it answers, the fallback text when it fails; the fallback
\* compares the two scores and raises when they are NULL.
generate_game_recap(row, goals, claude) ==
    CASE claude = "unconfigured" ->
            [raised |-> FALSE, summary_line |-> "template",
             recap_text |-> <<"unavailable", "-">>]
      [] claude = "ok" ->
            [raised |-> FALSE, summary_line |-> "generated",
             recap_text |-> <<"generated", FirstScorer(goals)>>]
      [] OTHER ->
            IF row.home_score = None \/ row.away_score = None
            THEN [raised |-> TRUE, summary_line |-> "-", recap_text |-> <<"-", "-">>]
            ELSE [raised |-> FALSE, summary_line |-> "template",
                  recap_text |-> <<"fallback", FirstScorer(goals)>>]

\* the Video rows the stage adds to the session: a category's video is added
\* unless the existence query finds its (game_id, youtube_id); with autoflush
\* the query sees the row added just before, without it only the stored rows.
PendingVideos(rows, nid, g, res, autoflush) ==
    LET p1 == IF res.nhl_official # None /\ ~video_exists(rows, g, res.nhl_official[1])
              THEN {VideoRow(nid, g, res.nhl_official[1], "nhl_official")} ELSE {}
        seen == IF autoflush THEN rows \cup p1 ELSE rows
        p2 == IF res.professor_hockey # None
                 /\ ~video_exists(seen, g, res.professor_hockey[1])
              THEN {VideoRow(nid + Cardinality(p1), g, res.professor_hockey[1],
                             "professor_hockey")}
              ELSE {}
    IN  p1 \cup p2

CompleteRow_without_recap(row, recap, t) ==
    [row EXCEPT !.recap_generated = TRUE,
                !.status = "COMPLETE",
                !.completed_at = Some(t),
                !.status_updated_at = Some(t)]
\* the fields the stage sets after the recap was generated
CompleteRow(row, recap, t) ==
    [row EXCEPT !.summary_line = Some(recap.summary_line),
                !.recap_text = Some(recap.recap_text),
                !.recap_generated = TRUE,
                !.status = "COMPLETE",
                !.completed_at = Some(t),
                !.status_updated_at = Some(t)]

\* One run of the stage body in a session whose stored rows are `rows`:
\* whether it raised and where, the session's Game row and the Video rows the
\* session holds uncommitted when the stage returns or raises. A failed commit
\* rolls the session back.
Enrich(row, rows, nid, g, res, autoflush, claude, early, t) ==
    LET pending == PendingVideos(rows, nid, g, res, autoflush)
        row1 == [row EXCEPT !.videos_fetched = TRUE]
        recap == generate_game_recap(row1, GoalsOf(row1), claude)
    IN  IF early
        THEN [raised |-> TRUE, where |-> "search", row |-> row, pending |-> {},
              committed |-> FALSE]
        ELSE IF recap.raised
        THEN [raised |-> TRUE, where |-> "recap", row |-> row1, pending |-> pending,
              committed |-> FALSE]
        ELSE IF ~uq_game_video(rows \cup pending)
        THEN [raised |-> TRUE, where |-> "commit", row |-> row, pending |-> {},
              committed |-> FALSE]
        ELSE [raised |-> FALSE, where |-> "none", row |-> CompleteRow(row1, recap, t),
              pending |-> pending, committed |-> TRUE]

process_game_videos_and_recap(g, in) ==
        LET e == Enrich(games[g], videos, nextVideoId, g, in.res, in.autoflush,
                        in.claude, in.early, now)
        IN  /\ IF ~games[g].exists
               THEN /\ last' = Outcome("enrich", g, "missing")
                    /\ UNCHANGED <<games, videos, nextVideoId>>
               ELSE IF e.raised
               THEN /\ last' = [Outcome("enrich", g, "raised") EXCEPT !.error = e.where]
                    /\ UNCHANGED <<games, videos, nextVideoId>>
               ELSE /\ last' = Outcome("enrich", g, "ok")
                    /\ games' = [games EXCEPT ![g] = e.row]
                    /\ videos' = videos \cup e.pending
                    /\ nextVideoId' = nextVideoId + Cardinality(e.pending)
            /\ UNCHANGED now
            /\ UNCHANGED triggers
            /\ UNCHANGED <<rosterVars, apiVars>>

(***************************************************************************)
(* T+24h: archive_game.                                                    *)
(***************************************************************************)
\* an archive stage that archives only a game whose videos were fetched
ArchiveRow_only_with_videos(row, t) ==
    IF row.videos_fetched
    THEN [row EXCEPT !.status = "ARCHIVED",
                     !.archived_at = Some(t),
                     !.status_updated_at = Some(t)]
    ELSE row

ArchiveRow(row, t) ==
    [row EXCEPT !.status = "ARCHIVED",
                !.archived_at = Some(t),
                !.status_updated_at = Some(t)]

\* an archive stage that retries whenever no recap was generated
ArchiveAttempts_without_recap(row) == IF ~row.recap_generated THEN 1 ELSE 0

\* how many times archive_game calls the enrichment stage for this row
ArchiveAttempts(row) == IF ~row.videos_fetched THEN 1 ELSE 0

archive_game(g, in) ==
        LET row == games[g]
            n == ArchiveAttempts(row)
            e == Enrich(row, videos, nextVideoId, g, in.res, in.autoflush, in.claude,
                        in.early, now)
            \* the session after the retry: what is stored, what is still pending
            stored == IF n = 1 /\ e.committed THEN videos \cup e.pending ELSE videos
            pending == IF n = 1 /\ ~e.committed THEN e.pending ELSE {}
            srow == IF n = 1 THEN e.row ELSE row
            retry == IF n = 0 THEN "none" ELSE IF e.raised THEN "raised" ELSE "ok"
            out == [Outcome("archive", g, "ok") EXCEPT
                        !.count = n, !.retry = retry,
                        !.error = IF n = 1 /\ e.raised THEN e.where ELSE "none"]
        IN  /\ IF ~row.exists
               THEN /\ last' = Outcome("archive", g, "missing")
                    /\ UNCHANGED <<games, videos, nextVideoId>>
               ELSE IF uq_game_video(stored \cup pending)
               THEN /\ last' = out
                    /\ games' = [games EXCEPT ![g] = ArchiveRow(srow, now)]
                    /\ videos' = stored \cup pending
                    /\ nextVideoId' = nextVideoId + Cardinality(videos' \ videos)
               ELSE \* the final commit raises; what the retry committed stays
                    /\ last' = [out EXCEPT !.result = "raised", !.error = "commit"]
                    /\ games' = [games EXCEPT ![g] =
                                    IF n = 1 /\ e.committed THEN e.row ELSE row]
                    /\ videos' = stored
                    /\ nextVideoId' = nextVideoId + Cardinality(videos' \ videos)
            /\ UNCHANGED now
            /\ UNCHANGED triggers
            /\ UNCHANGED <<rosterVars, apiVars>>

(***************************************************************************)
(* The hourly sweep: check_and_fetch_videos_job.                           *)
(***************************************************************************)
\* get_games_needing_processing(db, status)
get_games_needing_processing(tbl, status) ==
    {g \in GameIds : tbl[g].exists /\ tbl[g].status = status /\ ~tbl[g].videos_fetched}

RECURSIVE InIdOrder(_)
\* the ids of a set as the list a query returns them
InIdOrder(S) ==
    IF S = {} THEN <<>>
    ELSE LET m == CHOOSE x \in S : \A y \in S : x <= y
         IN  <<m>> \o InIdOrder(S \ {m})

\* a sweep that also completes the game it marks
MarkVideosFetchedRow_completes(row, t) ==
    [row EXCEPT !.videos_fetched = TRUE, !.status = "COMPLETE",
                !.status_updated_at = Some(t)]

\* mark_videos_fetched
MarkVideosFetchedRow(row, t) ==
    [row EXCEPT !.videos_fetched = TRUE, !.status_updated_at = Some(t)]

\* the body of the sweep's loop for one game: db is the store going in, the
\* result the store going out; every create_video commits on its own.
SweepGame(db, g, res, fault, t) ==
    LET v1 == IF res.nhl_official # None
                 /\ ~video_exists(db.videos, g, res.nhl_official[1])
              THEN {VideoRow(db.nextVideoId, g, res.nhl_official[1], "nhl_official")}
              ELSE {}
        rows1 == db.videos \cup v1
        v2 == IF res.professor_hockey # None
                 /\ ~video_exists(rows1, g, res.professor_hockey[1])
              THEN {VideoRow(db.nextVideoId + Cardinality(v1), g,
                             res.professor_hockey[1], "professor_hockey")}
              ELSE {}
    IN  IF fault = "search"
        THEN db
        ELSE [games |-> IF fault = "mark" THEN db.games
                        ELSE [db.games EXCEPT ![g] = MarkVideosFetchedRow(db.games[g], t)],
              videos |-> rows1 \cup v2,
              nextVideoId |-> db.nextVideoId + Cardinality(v1) + Cardinality(v2)]

RECURSIVE SweepAll_stops_at_failure(_, _, _, _, _)
SweepAll_stops_at_failure(db, order, res, fault, t) ==
    IF order = <<>> \/ fault[Head(order)] # "none" THEN db
    ELSE SweepAll_stops_at_failure(
             SweepGame(db, Head(order), res[Head(order)], fault[Head(order)], t),
             Tail(order), res, fault, t)

\* the loop over the selected games; a game that fails is logged and skipped
RECURSIVE SweepAll(_, _, _, _, _)
SweepAll(db, order, res, fault, t) ==
    IF order = <<>> THEN db
    ELSE SweepAll(SweepGame(db, Head(order), res[Head(order)], fault[Head(order)], t),
                  Tail(order), res, fault, t)

\* what fails while a game is processed: nothing, the search (or anything
\* before the first row is stored), the commit of mark_videos_fetched
SweepFaults == {"none", "search", "mark"}

\* res, fault: per selected game, what the search returns and whether it raises
check_and_fetch_videos_job(res, fault) ==
    LET final == get_games_needing_processing(games, "FINAL")
        off == get_games_needing_processing(games, "OFF")
        order == InIdOrder(final) \o InIdOrder(off)
    IN      LET db == SweepAll([games |-> games, videos |-> videos,
                                nextVideoId |-> nextVideoId], order, res, fault, now)
            IN  /\ games' = db.games
                /\ videos' = db.videos
                /\ nextVideoId' = db.nextVideoId
                /\ last' = [Outcome("sweep", 0, "ok") EXCEPT
                                !.error = IF \E g \in final \cup off : fault[g] # "none"
                                          THEN "search" ELSE "none",
                                !.selected = final \cup off,
                                !.failed = {g \in final \cup off : fault[g] # "none"}]
                /\ UNCHANGED now
                /\ UNCHANGED triggers
                /\ UNCHANGED <<rosterVars, apiVars>>

(***************************************************************************)
(* The schedule check: check_upcoming_games.                               *)
(***************************************************************************)
\* whether the check schedules the stage sequence for this row
NeedsScheduling_also_archived(row, gameState) ==
    /\ gameState \in {"FINAL", "OFF"}
    /\ ~row.basic_stats_fetched
NeedsScheduling(row, gameState) ==
    /\ gameState \in {"FINAL", "OFF"}
    /\ row.status # "ARCHIVED"
    /\ ~row.basic_stats_fetched

\* the row the check leaves for a game the schedule reports in gameState
CheckRow(row, gameState, t) ==
    LET row1 == IF ~row.exists
                THEN NewGame(IF gameState = "FUT" THEN "SCHEDULED" ELSE gameState)
                ELSE row
    IN  IF NeedsScheduling(row1, gameState)
        THEN [row1 EXCEPT !.status = "FINAL", !.status_updated_at = Some(t)]
        ELSE row1

\* estimated_end: kickoff plus the estimated duration, or the current time
\* when that has passed
EstimatedEnd(gameDate, t) ==
    IF gameDate + EstimatedDuration < t THEN t ELSE gameDate + EstimatedDuration

\* schedule_post_game_processing(game_id, estimated_end): one more stage
\* sequence is scheduled for the game
schedule_post_game_processing(tr, game_id, estimated_end) ==
    [tr EXCEPT ![game_id] = TRUE]

\* schedule = <<s>>: the fetched schedule, gameState and gameDate per listed
\* game; <<>>: the fetch raised. The count of the outcome is games_scheduled,
\* scheduled holds the arguments of the scheduling calls.
check_upcoming_games(schedule) ==
        /\ IF schedule = None
           THEN /\ last' = [Outcome("check", 0, "raised") EXCEPT !.error = "fetch"]
                /\ games' = games
                /\ triggers' = triggers
           ELSE LET s == schedule[1]
                    hit == {g \in DOMAIN s :
                              NeedsScheduling(
                                  IF games[g].exists THEN games[g]
                                  ELSE NewGame(IF s[g].gameState = "FUT" THEN "SCHEDULED"
                                               ELSE s[g].gameState),
                                  s[g].gameState)}
                IN  /\ games' = [g \in GameIds |->
                                    IF g \in DOMAIN s
                                    THEN CheckRow(games[g], s[g].gameState, now)
                                    ELSE games[g]]
                    /\ triggers' = [g \in GameIds |->
                                    IF g \in hit
                                    THEN schedule_post_game_processing(
                                             triggers, g, EstimatedEnd(s[g].gameDate, now))[g]
                                    ELSE triggers[g]]
                    /\ last' = [Outcome("check", 0, "ok") EXCEPT
                                    !.count = Cardinality(hit),
                                    !.scheduled =
                                        {<<g, EstimatedEnd(s[g].gameDate, now)>> : g \in hit}]
        /\ UNCHANGED <<videos, nextVideoId, now>>
        /\ UNCHANGED <<rosterVars, apiVars>>

(***************************************************************************)
(* Roster synchronisation (app/jobs/roster_sync.py).                       *)
(***************************************************************************)
SHARKS_TEAM_ID == "SJS"
PlayerIds == DOMAIN player_info

\* one stored player_team_history row
HistoryRow(id, p, team, name, start, end) ==
    [id |-> id, player_id |-> p, team_id |-> team, team_name |-> name,
     start_date |-> start, end_date |-> end]

\* no player_info row is stored under the id
NoInfo ==
    [exists |-> FALSE, name |-> None, position |-> None, jersey_number |-> None,
     nhl_profile_url |-> None, headshot_url |-> None]

\* one entry of the upstream roster; a key the entry lacks is None
RosterEntry(id, first, family, number, pos) ==
    [id |-> id, firstName |-> first, lastName |-> family,
     sweaterNumber |-> number, positionCode |-> pos, headshot |-> Some(<<"mug", id>>)]

Celebrini == RosterEntry(1, Some("Macklin"), Some("Celebrini"), Some(71), Some("C"))
Ferraro == RosterEntry(2, Some("Mario"), Some("Ferraro"), Some(38), Some("D"))
Askarov == RosterEntry(3, Some("Yaroslav"), Some("Askarov"), Some(30), Some("G"))

\* the rosters the upstream source answers with
RosterNames == {"nobody", "AB", "BC", "BC83", "ACnameless"}
Rosters(r) ==
    CASE r = "AB" ->
            [forwards |-> <<Celebrini>>, defensemen |-> <<Ferraro>>, goalies |-> <<>>]
      [] r = "BC" ->
            [forwards |-> <<>>, defensemen |-> <<Ferraro>>, goalies |-> <<Askarov>>]
      [] r = "BC83" ->
            [forwards |-> <<>>,
             defensemen |-> <<[Ferraro EXCEPT !.sweaterNumber = Some(83)]>>,
             goalies |-> <<Askarov>>]
      [] r = "ACnameless" ->
            [forwards |-> <<Celebrini>>, defensemen |-> <<>>,
             goalies |-> <<[Askarov EXCEPT !.firstName = None]>>]
      [] OTHER ->
            [forwards |-> <<>>, defensemen |-> <<>>, goalies |-> <<>>]

\* the entries in the order the three position groups are walked
ApiEntries(roster_data) ==
    roster_data.forwards \o roster_data.defensemen \o roster_data.goalies

api_player_ids(roster_data) ==
    {ApiEntries(roster_data)[i].id : i \in DOMAIN ApiEntries(roster_data)}

\* the entry kept for an id is the one walked last
api_players_map(roster_data) ==
    LET es == ApiEntries(roster_data)
    IN  [p \in api_player_ids(roster_data) |->
            es[CHOOSE i \in DOMAIN es :
                   /\ es[i].id = p
                   /\ \A j \in DOMAIN es : es[j].id = p => j <= i]]

\* the team's open stints
current_db_roster(rows) ==
    {h \in rows : h.team_id = SHARKS_TEAM_ID /\ h.end_date = None}

db_player_ids(rows) == {h.player_id : h \in current_db_roster(rows)}

removed_players(db_ids, api_ids) == db_ids \ api_ids

added_players_everyone(api_ids, db_ids) == api_ids
added_players(api_ids, db_ids) == api_ids \ db_ids

\* the open stint .first() returns for a player
FirstOpen(rows, p) ==
    CHOOSE h \in current_db_roster(rows) :
        /\ h.player_id = p
        /\ \A k \in current_db_roster(rows) : k.player_id = p => h.id <= k.id

ClosedRows_leaves_open(rows, removed, d) == rows
\* the rows once the open stint of every removed player has its end_date
ClosedRows(rows, removed, d) ==
    {IF h.player_id \in removed /\ h \in current_db_roster(rows)
        /\ h = FirstOpen(rows, h.player_id)
     THEN [h EXCEPT !.end_date = Some(d)]
     ELSE h : h \in rows}

\* the PlayerInfo row created from an entry
CreatedInfo(e) ==
    [exists |-> TRUE,
     name |-> <<e.firstName[1], " ", e.lastName[1]>>,
     position |-> e.positionCode,
     jersey_number |-> e.sweaterNumber,
     nhl_profile_url |-> Some(<<"https://www.nhl.com/player", e.id>>),
     headshot_url |-> e.headshot]

\* an entry whose name cannot be read
Nameless(e) == e.firstName = None \/ e.lastName = None

RefreshedInfo_keeps_number(row, e) ==
    [row EXCEPT !.position = e.positionCode, !.headshot_url = e.headshot]
\* a stored PlayerInfo row brought up to date with its entry
RefreshedInfo(row, e) ==
    [row EXCEPT !.jersey_number = e.sweaterNumber,
                !.position = e.positionCode,
                !.headshot_url = e.headshot]

\* PlayerInfo created or updated for the added players in S
AddedInfo(info, S, map) ==
    [p \in DOMAIN info |->
        IF p \in S
        THEN IF info[p].exists THEN RefreshedInfo(info[p], map[p])
                               ELSE CreatedInfo(map[p])
        ELSE info[p]]

\* one new open stint for every added player in S
OpenedRows(rows, nid, S, d) ==
    rows \cup {HistoryRow(nid + Cardinality({q \in S : q < p}), p,
                          SHARKS_TEAM_ID, "San Jose Sharks", d, None) : p \in S}

JerseyChanges_counts_everyone(info, both, map) == both
\* the players still on the roster whose stored jersey number differs
JerseyChanges(info, both, map) ==
    {p \in both : info[p].exists /\ info[p].jersey_number # map[p].sweaterNumber}

\* PlayerInfo of the players still on the roster
UpdatedInfo(info, both, map) ==
    [p \in DOMAIN info |->
        IF p \in both /\ info[p].exists THEN RefreshedInfo(info[p], map[p])
                                        ELSE info[p]]

rollback_keeps_pending(committed, pending) == pending
\* db.rollback(): the session's pending changes are dropped
rollback(committed, pending) == committed

NoSync ==
    [run |-> 0, roster |-> "-", result |-> "none", changes |-> 0,
     undone |-> 0, repeat |-> FALSE]

SyncFaults == {"none", "fetch", "commit"}

\* r: the roster the upstream source answers with; fault: what fails
\* ("fetch": the request, "commit": the store); done: the added players
\* handled before a nameless one is met
sync_sharks_roster(r, fault, done) ==
    LET roster_data == Rosters(r)
        api_ids == api_player_ids(roster_data)
        map == api_players_map(roster_data)
        db_ids == db_player_ids(history)
        removed == removed_players(db_ids, api_ids)
        added == added_players(api_ids, db_ids)
        both == api_ids \cap db_ids
        bad == {p \in added : ~player_info[p].exists /\ Nameless(map[p])}
        handled == IF bad = {} THEN added ELSE done
        rows == OpenedRows(ClosedRows(history, removed, today),
                           nextHistoryId, handled, today)
        infoAdded == AddedInfo(player_info, handled, map)
        renumbered == IF bad = {} THEN JerseyChanges(infoAdded, both, map) ELSE {}
        changes == Cardinality(removed) + Cardinality(handled) + Cardinality(renumbered)
        committed == [history |-> history, player_info |-> player_info]
        pending ==
            IF fault = "fetch" THEN committed
            ELSE [history |-> rows,
                  player_info |-> IF bad = {} THEN UpdatedInfo(infoAdded, both, map)
                                              ELSE infoAdded]
        raised == fault # "none" \/ bad # {}
        stored == IF raised THEN rollback(committed, pending) ELSE pending
    IN  /\ lastSync.run < MaxRuns
        /\ done \subseteq added \ bad
        /\ (bad = {} \/ fault = "fetch") => done = {}
        /\ bad # {} => fault # "commit"
        /\ history' = stored.history
        /\ player_info' = stored.player_info
        /\ nextHistoryId' = IF raised THEN nextHistoryId
                                      ELSE nextHistoryId + Cardinality(added)
        /\ lastSync' = [run |-> lastSync.run + 1,
                        roster |-> r,
                        result |-> IF raised THEN "raised" ELSE "ok",
                        changes |-> IF raised THEN 0 ELSE changes,
                        undone |-> IF raised /\ fault # "fetch" THEN changes ELSE 0,
                        repeat |-> lastSync.result = "ok" /\ lastSync.roster = r]
        /\ UNCHANGED today
        /\ UNCHANGED <<pipeVars, apiVars>>

\* the date changes
NewDay ==
    /\ today < MaxDay
    /\ today' = today + 1
    /\ UNCHANGED <<history, player_info, nextHistoryId, lastSync>>
    /\ UNCHANGED <<pipeVars, apiVars>>

(***************************************************************************)
(* The Redis cache in front of the read endpoints                          *)
(* (services/redis_cache.py).                                              *)
(***************************************************************************)
\* A Python value: its type, its text, the field values of a model object,
\* the elements of a list.
PyValue(kind, text, data, items) ==
    [kind |-> kind, text |-> text, data |-> data, items |-> items]
PyNone == PyValue("NoneType", "None", <<>>, <<>>)
PyInt(text) == PyValue("int", text, <<>>, <<>>)
PyStr(text) == PyValue("str", text, <<>>, <<>>)
PyList(items) == PyValue("list", "", <<>>, items)
PyDatetime(text) == PyValue("datetime", text, <<>>, <<>>)

\* str(value): the text of a datetime, the "name=value ..." text of a model
py_str(value) ==
    IF value.kind = "str" THEN value
    ELSE PyValue("str", IF value.data = <<>> THEN value.text ELSE "name=value",
                 value.data, <<>>)

\* a JSON document: null, a number, a string or an array
Json(kind, text, data, items) ==
    [kind |-> kind, text |-> text, data |-> data, items |-> items]

\* json.dumps(value, default=str): what JSON cannot express becomes its str()
RECURSIVE json_dumps(_)
json_dumps(value) ==
    CASE value.kind = "NoneType" -> Json("null", "null", <<>>, <<>>)
      [] value.kind = "int" -> Json("number", value.text, <<>>, <<>>)
      [] value.kind = "str" -> Json("string", value.text, value.data, <<>>)
      [] value.kind = "list" ->
            Json("array", "", <<>>,
                 [i \in DOMAIN value.items |-> json_dumps(value.items[i])])
      [] OTHER -> json_dumps(py_str(value))

\* json.loads(document)
RECURSIVE json_loads(_)
json_loads(doc) ==
    CASE doc.kind = "null" -> PyNone
      [] doc.kind = "number" -> PyInt(doc.text)
      [] doc.kind = "string" -> PyValue("str", doc.text, doc.data, <<>>)
      [] OTHER -> PyList([i \in DOMAIN doc.items |-> json_loads(doc.items[i])])

\* ttl: int = 300
DefaultTtl == 300

\* f"game:{game_id}" and f"games:recent:limit={limit}:team={team}" (team None)
GameKey(game_id) == [prefix |-> "game:", arg |-> game_id]
RecentKey(limit) == [prefix |-> "games:recent:limit=", arg |-> limit]
RecentLimit == 10
CacheKeys == {GameKey(1), RecentKey(RecentLimit)}

\* KEYS pattern: "games:*" matches the keys that start with "games:"
glob(pattern, key) ==
    \/ pattern = "games:*" /\ key.prefix = "games:recent:limit="
    \/ pattern = "game:*" /\ key.prefix = "game:"

\* what a call of the Redis client does: answers, or raises
CacheFaults == {"none", "raise"}

\* the cache object: REDIS_ENABLED and a connected client, and the keys the
\* server holds
RedisCache(enabled, store) == [enabled |-> enabled, store |-> store]
EmptyStore == [k \in CacheKeys |-> None]
CacheEntry(serialized, ttl) == [value |-> serialized, ttl |-> ttl]

\* RedisCache.get without its except branch: the client's error comes out
cache_get_raises(c, key, fault) ==
    IF ~c.enabled THEN PyNone
    ELSE IF fault # "none" THEN PyValue("Exception", "raise", <<>>, <<>>)
    ELSE IF c.store[key] # None THEN json_loads(c.store[key][1].value)
    ELSE PyNone

\* RedisCache.get: the cached value, or None
cache_get(c, key, fault) ==
    IF ~c.enabled THEN PyNone
    ELSE IF fault # "none" THEN PyNone
    ELSE IF c.store[key] # None THEN json_loads(c.store[key][1].value)
    ELSE PyNone

\* RedisCache.set: the cache after the call and the returned bool
cache_set(c, key, value, ttl, fault) ==
    IF ~c.enabled THEN [cache |-> c, result |-> FALSE]
    ELSE IF fault # "none" THEN [cache |-> c, result |-> FALSE]
    ELSE [cache |-> [c EXCEPT !.store[key] = Some(CacheEntry(json_dumps(value), ttl))],
          result |-> TRUE]

\* an invalidate that deletes nothing
cache_invalidate_keeps_key(c, key, fault) == [cache |-> c, result |-> FALSE]

\* RedisCache.invalidate: True if a key was deleted
cache_invalidate(c, key, fault) ==
    IF ~c.enabled THEN [cache |-> c, result |-> FALSE]
    ELSE IF fault # "none" THEN [cache |-> c, result |-> FALSE]
    ELSE [cache |-> [c EXCEPT !.store[key] = None],
          result |-> c.store[key] # None]

\* RedisCache.invalidate_pattern: the number of keys deleted
cache_invalidate_pattern(c, pattern, fault) ==
    IF ~c.enabled THEN [cache |-> c, result |-> 0]
    ELSE IF fault # "none" THEN [cache |-> c, result |-> 0]
    ELSE LET keys == {k \in CacheKeys : c.store[k] # None /\ glob(pattern, k)}
         IN  [cache |-> [c EXCEPT !.store = [k \in CacheKeys |->
                                                IF k \in keys THEN None ELSE @[k]]],
              result |-> Cardinality(keys)]

\* the server drops an entry whose ttl has passed
expire(c, key) == [c EXCEPT !.store[key] = None]

(***************************************************************************)
(* The game endpoints (api/v1/routers/games.py) over the store and the     *)
(* cache.                                                                  *)
(***************************************************************************)
\* db.query(Video).filter(game_id, video_type).first()
get_video_by_type(rows, g, type) ==
    LET m == {v \in rows : v.game_id = g /\ v.video_type = type}
    IN  IF m = {} THEN None
        ELSE Some(CHOOSE v \in m : \A w \in m : v.id <= w.id)

YoutubeIdOf(video) == IF video = None THEN None ELSE Some(video[1].youtube_id)

\* the GameDetail object get_game builds from the stored row and its videos
GameDetail(db, g) ==
    LET row == db.games[g]
    IN  PyValue("GameDetail", "",
                <<[game_id |-> g, status |-> row.status,
                   away_score |-> row.away_score, home_score |-> row.home_score,
                   scorers |-> row.scorers, recap_text |-> row.recap_text,
                   summary_line |-> row.summary_line,
                   nhl_video_id |->
                       YoutubeIdOf(get_video_by_type(db.videos, g, "nhl_official")),
                   professor_hockey_video_id |->
                       YoutubeIdOf(get_video_by_type(db.videos, g, "professor_hockey")),
                   videos |-> {v \in db.videos : v.game_id = g}]>>,
                <<>>)

\* the GameSummary object get_recent_games builds
GameSummary(db, g) ==
    LET row == db.games[g]
    IN  PyValue("GameSummary", "",
                <<[game_id |-> g, status |-> row.status,
                   away_score |-> row.away_score, home_score |-> row.home_score,
                   has_videos |->
                       \/ get_video_by_type(db.videos, g, "nhl_official") # None
                       \/ get_video_by_type(db.videos, g, "professor_hockey") # None]>>,
                <<>>)

\* what a handler hands back: the outcome and the body
Response(code, body) == [code |-> code, body |-> body]

\* what the cache calls of one request do
RequestFaults ==
    [get : CacheFaults, set : CacheFaults,
     invalidate : CacheFaults, invalidate_pattern : CacheFaults]
\* the faults of a request that makes only these cache calls
FaultsOf(calls) ==
    {f \in RequestFaults : \A op \in DOMAIN f : op \notin calls => f[op] = "none"}
NoFaults ==
    [get |-> "none", set |-> "none", invalidate |-> "none", invalidate_pattern |-> "none"]

\* the cache calls of a request that did not go through: the backend is
\* disabled, or the client raised
Failed(c, f, calls) == {op \in calls : ~c.enabled \/ f[op] # "none"}

\* GET /games/{game_id}
get_game(c, db, game_id, f) ==
    LET cached_result == cache_get(c, GameKey(game_id), f.get)
    IN  IF cached_result # PyNone
        THEN [cache |-> c, db |-> db, failed |-> {},
              result |-> Response("ok", cached_result)]
        ELSE IF ~db.games[game_id].exists
        THEN [cache |-> c, db |-> db, failed |-> Failed(c, f, {"get"}),
              result |-> Response("not_found", PyNone)]
        ELSE LET game_detail == GameDetail(db, game_id)
             IN  [cache |-> cache_set(c, GameKey(game_id), game_detail,
                                      DefaultTtl, f.set).cache,
                  db |-> db, failed |-> Failed(c, f, {"get", "set"}),
                  result |-> Response("ok", game_detail)]

\* crud.get_recent_games: the finished games, newest first, at most `limit`
\* (games are numbered in the order of their dates)
RECURSIVE RecentIds(_, _)
RecentIds(ids, limit) ==
    IF ids = {} \/ limit = 0 THEN <<>>
    ELSE LET g == CHOOSE x \in ids : \A y \in ids : y <= x
         IN  <<g>> \o RecentIds(ids \ {g}, limit - 1)

\* crud.get_recent_games: the status filter, then order_by and limit
crud_get_recent_games(tbl, limit) ==
    RecentIds({g \in DOMAIN tbl : tbl[g].exists /\ tbl[g].status \in {"FINAL", "OFF"}},
              limit)

\* monitoring's games.with_videos: the games counted by their flag
games_with_videos(tbl) == {g \in DOMAIN tbl : tbl[g].exists /\ tbl[g].videos_fetched}

\* GET /games/recent
get_recent_games(c, db, limit, f) ==
    LET cached_result == cache_get(c, RecentKey(limit), f.get)
    IN  IF cached_result # PyNone
        THEN [cache |-> c, db |-> db, failed |-> {},
              result |-> Response("ok", cached_result)]
        ELSE LET ids == crud_get_recent_games(db.games, limit)
                 summaries == PyList([i \in DOMAIN ids |-> GameSummary(db, ids[i])])
             IN  [cache |-> cache_set(c, RecentKey(limit), summaries,
                                      DefaultTtl, f.set).cache,
                  db |-> db, failed |-> Failed(c, f, {"get", "set"}),
                  result |-> Response("ok", summaries)]

\* crud.create_game with the GameCreate defaults
CreatedRow == NewGame("SCHEDULED")

\* POST /games
create_game(c, db, game_id, f) ==
    IF db.games[game_id].exists
    THEN [cache |-> c, db |-> db, failed |-> {},
          result |-> Response("bad_request", PyNone)]
    ELSE LET db1 == [db EXCEPT !.games[game_id] = CreatedRow]
             c1 == cache_invalidate_pattern(c, "games:*", f.invalidate_pattern).cache
             inner == get_game(c1, db1, game_id, f)
         IN  [inner EXCEPT
                 !.failed = @ \cup Failed(c, f, {"invalidate_pattern"})]

\* the bodies PATCH /games/{game_id} is sent: the fields that were set
GameUpdates ==
    << [status |-> "OFF", away_score |-> Some(3), home_score |-> Some(2)],
       [recap_text |-> Some(<<"edited", "-">>), summary_line |-> Some("edited")] >>

\* crud.update_game: setattr for every key sent, then the update stamp
UpdatedRow(row, update_data, t) ==
    [row EXCEPT
        !.status = IF "status" \in DOMAIN update_data THEN update_data.status ELSE @,
        !.away_score =
            IF "away_score" \in DOMAIN update_data THEN update_data.away_score ELSE @,
        !.home_score =
            IF "home_score" \in DOMAIN update_data THEN update_data.home_score ELSE @,
        !.recap_text =
            IF "recap_text" \in DOMAIN update_data THEN update_data.recap_text ELSE @,
        !.summary_line =
            IF "summary_line" \in DOMAIN update_data THEN update_data.summary_line ELSE @,
        !.status_updated_at = Some(t)]

\* the two invalidations update_game and delete_game make after their commit
invalidate_game(c, game_id, f) ==
    cache_invalidate_pattern(cache_invalidate(c, GameKey(game_id), f.invalidate).cache,
                             "games:*", f.invalidate_pattern).cache

\* PATCH /games/{game_id}
update_game(c, db, game_id, update_data, f, t) ==
    IF ~db.games[game_id].exists
    THEN [cache |-> c, db |-> db, failed |-> {},
          result |-> Response("not_found", PyNone)]
    ELSE LET db1 == [db EXCEPT
                        !.games[game_id] = UpdatedRow(db.games[game_id], update_data, t)]
             inner == get_game(invalidate_game(c, game_id, f), db1, game_id, f)
         IN  [inner EXCEPT
                 !.failed = @ \cup Failed(c, f, {"invalidate", "invalidate_pattern"})]

\* crud.delete_game: the row goes, and its videos with it (ondelete CASCADE)
DeletedDb(db, game_id) ==
    [db EXCEPT !.games[game_id] = NoGame,
               !.videos = {v \in db.videos : v.game_id # game_id}]

\* DELETE /games/{game_id}
delete_game(c, db, game_id, f) ==
    IF ~db.games[game_id].exists
    THEN [cache |-> c, db |-> db, failed |-> {},
          result |-> Response("not_found", PyNone)]
    ELSE [cache |-> invalidate_game(c, game_id, f),
          db |-> DeletedDb(db, game_id),
          failed |-> Failed(c, f, {"invalidate", "invalidate_pattern"}),
          result |-> Response("no_content", PyNone)]

(***************************************************************************)
(* Comments (models/comment.py, crud/comment.py).                          *)
(***************************************************************************)
CommentIds == {1, 2, 3}

\* a stored Comment row: the mapped columns of models/comment.py
CommentRow(text, parent_id) ==
    [exists |-> TRUE, text |-> text, user_id |-> "u1", parent_id |-> parent_id,
     is_deleted |-> FALSE, is_flagged |-> FALSE,
     deleted_at |-> None, updated_at |-> 0]

\* no row with this id
NoComment == [CommentRow("-", None) EXCEPT !.exists = FALSE]

\* the columns a Comment object maps to the table
CommentColumns ==
    {"text", "user_id", "parent_id", "is_deleted", "is_flagged", "deleted_at",
     "updated_at"}

\* db.commit(): an UPDATE of the mapped columns that changed on the loaded
\* object, with updated_at = onupdate(); an attribute that is no column is
\* not written
commit_comment(row, assigned, t) ==
    LET new == [row EXCEPT
                   !.is_deleted = IF "is_deleted" \in DOMAIN assigned
                                  THEN assigned.is_deleted ELSE @,
                   !.is_flagged = IF "is_flagged" \in DOMAIN assigned
                                  THEN assigned.is_flagged ELSE @,
                   !.text = IF "text" \in DOMAIN assigned THEN assigned.text ELSE @]
    IN  IF new = row THEN row ELSE [new EXCEPT !.updated_at = t]

\* crud.delete_comment: comment.is_deleted = True; comment.content = "[deleted]"
delete_comment(rows, comment_id, t) ==
    IF ~rows[comment_id].exists
    THEN [comments |-> rows, result |-> FALSE]
    ELSE [comments |-> [rows EXCEPT ![comment_id] =
                           commit_comment(@, [is_deleted |-> TRUE, content |-> "[deleted]"], t)],
          result |-> TRUE]

\* crud.flag_comment: comment.is_flagged = True
flag_comment(rows, comment_id, t) ==
    IF ~rows[comment_id].exists
    THEN [comments |-> rows, result |-> FALSE]
    ELSE [comments |-> [rows EXCEPT ![comment_id] =
                           commit_comment(@, [is_flagged |-> TRUE], t)],
          result |-> TRUE]

\* crud.update_comment: comment.content = content; comment.edited_at = utcnow()
update_comment(rows, comment_id, content, t) ==
    IF ~rows[comment_id].exists
    THEN [comments |-> rows, result |-> FALSE]
    ELSE [comments |-> [rows EXCEPT ![comment_id] =
                           commit_comment(@, [content |-> content, edited_at |-> t], t)],
          result |-> TRUE]

\* the authenticated users get_current_user can hand to a request
UserIds == {"u1", "u2"}
CurrentUsers == [user_id : UserIds, is_admin : BOOLEAN]

\* what a request of the comments router leaves behind
CommentResult(rows, status_code) == [comments |-> rows, status_code |-> status_code]

\* PATCH /{comment_id}: 404, then the ownership check, then crud.update_comment;
\* the CommentResponse is built from updated_comment.user_name, an attribute no
\* Comment has, so the request of the author ends in an unhandled
\* AttributeError (500) after the commit
route_update_comment(rows, comment_id, content, current_user, t) ==
    IF ~rows[comment_id].exists THEN CommentResult(rows, 404)
    ELSE IF rows[comment_id].user_id # current_user.user_id
    THEN CommentResult(rows, 403)
    ELSE CommentResult(update_comment(rows, comment_id, content, t).comments, 500)

\* DELETE /{comment_id} without the ownership-or-admin check
route_delete_comment_by_anyone(rows, comment_id, current_user, t) ==
    IF ~rows[comment_id].exists THEN CommentResult(rows, 404)
    ELSE CommentResult(delete_comment(rows, comment_id, t).comments, 204)

\* DELETE /{comment_id}: 404, then ownership or admin, then crud.delete_comment
route_delete_comment(rows, comment_id, current_user, t) ==
    IF ~rows[comment_id].exists THEN CommentResult(rows, 404)
    ELSE IF rows[comment_id].user_id # current_user.user_id /\ ~current_user.is_admin
    THEN CommentResult(rows, 403)
    ELSE CommentResult(delete_comment(rows, comment_id, t).comments, 204)

\* POST /{comment_id}/flag: any authenticated user
route_flag_comment(rows, comment_id, current_user, t) ==
    LET r == flag_comment(rows, comment_id, t)
    IN  CommentResult(r.comments, IF r.result THEN 204 ELSE 404)

CommentCall(op, comment_id, result) ==
    [op |-> op, comment_id |-> comment_id, result |-> result]

\* a request of the comments router and its status code, for the properties
CommentRequest(op, comment_id, current_user, status_code) ==
    [op |-> op, comment_id |-> comment_id, result |-> status_code < 400,
     current_user |-> current_user, status_code |-> status_code]

\* the outcome of a cache call or of a request, for the properties
ApiCall(op) ==
    [op |-> op, key |-> GameKey(1), pattern |-> "-", fault |-> "none",
     value |-> PyNone, ok |-> FALSE, count |-> 0, invalidated |-> {},
     failed |-> {}, response |-> Response("-", PyNone), miss |-> Response("-", PyNone)]

\* no request is running
NoRequest ==
    [op |-> "-", pc |-> "idle", after |-> FALSE, hit |-> FALSE,
     snapshot |-> PyNone, before |-> PyNone, update |-> 0,
     response |-> Response("-", PyNone)]

ApiIdle ==
    /\ cache = RedisCache(FALSE, EmptyStore)
    /\ lastCall = ApiCall("init")
    /\ requests = <<>>
    /\ comments = [c \in CommentIds |-> NoComment]
    /\ lastComment = CommentCall("init", 0, FALSE)

(***************************************************************************)
(* Time passes.                                                            *)
(***************************************************************************)
Tick ==
    /\ now < MaxTime
    /\ now' = now + 1
    /\ UNCHANGED <<games, videos, nextVideoId, last>>
    /\ UNCHANGED triggers
    /\ UNCHANGED <<rosterVars, apiVars>>

(***************************************************************************)
(* The pipeline: any job at any time, in any order.                        *)
(***************************************************************************)
InitialStatuses == {"SCHEDULED", "LIVE", "FINAL", "OFF"}

RosterIdle ==
    /\ history = {}
    /\ player_info = <<>>
    /\ nextHistoryId = 1
    /\ today = 0
    /\ lastSync = NoSync

Init ==
    /\ games \in [{1} -> {NoGame} \cup {NewGame(st) : st \in InitialStatuses}]
    /\ videos = {}
    /\ nextVideoId = 1
    /\ now = 0
    /\ last = Outcome("init", 0, "ok")
    \* the stages run at any time: the game's sequence has been scheduled
    /\ triggers = [g \in {1} |-> TRUE]
    /\ RosterIdle
    /\ ApiIdle

\* the inputs the upstream services can hand to a job
BoxscoreFetches == {None} \cup {Some(b) : b \in BoxscoreIds}
PbpFetches == {None} \cup {Some(p) : p \in Pbps}
ScheduleFetches ==
    {None} \cup {Some(s) : s \in UNION {[S -> ScheduleEntries] : S \in SUBSET GameIds}}
Selected ==
    get_games_needing_processing(games, "FINAL")
    \cup get_games_needing_processing(games, "OFF")
\* a search that raises returns nothing
SweepInputs ==
    { in \in [Selected -> [res : SearchResults, fault : SweepFaults]] :
        \A g \in Selected :
            in[g].fault = "search" =>
                in[g].res = [nhl_official |-> None, professor_hockey |-> None] }

RunCheck == \E schedule \in ScheduleFetches : check_upcoming_games(schedule)
RunImmediate ==
    \E g \in GameIds, fetched \in BoxscoreFetches : process_game_immediate(g, fetched)
RunDetailedStats ==
    \E g \in GameIds, fetched \in PbpFetches : process_game_detailed_stats(g, fetched)
RunReddit == \E g \in GameIds, fault \in StoreFaults : process_game_reddit(g, fault)
RunVideosAndRecap ==
    \E g \in GameIds, in \in EnrichInputs : process_game_videos_and_recap(g, in)
RunQuotes == \E g \in GameIds, fault \in StoreFaults : process_game_quotes(g, fault)
\* the retry of the archive stage reads its inputs only when it runs
RetryInputs(row) ==
    IF row.exists /\ ArchiveAttempts(row) = 1 THEN EnrichInputs
    ELSE {in \in EnrichInputs : in.early}
RunArchive ==
    \E g \in GameIds : \E in \in RetryInputs(games[g]) : archive_game(g, in)
RunSweep ==
    \E in \in SweepInputs :
        check_and_fetch_videos_job([g \in Selected |-> in[g].res],
                                   [g \in Selected |-> in[g].fault])

Next ==
    \/ RunCheck
    \/ RunImmediate
    \/ RunDetailedStats
    \/ RunReddit
    \/ RunVideosAndRecap
    \/ RunQuotes
    \/ RunArchive
    \/ RunSweep

Spec == Init /\ [][Next]_vars

(***************************************************************************)
(* Properties of the pipeline.                                             *)
(***************************************************************************)
Flags(row) ==
    <<row.basic_stats_fetched, row.reddit_fetched, row.videos_fetched,
      row.quotes_fetched, row.recap_generated>>

\* C1: no run of the schedule check, of a pipeline stage or of the hourly
\* sweep moves a game's status to one that is earlier in the lifecycle
\* SCHEDULED -> LIVE -> FINAL/OFF -> COMPLETE -> ARCHIVED than the one it had.
StatusOnlyMovesForward ==
    [][\A g \in GameIds :
          (games[g].exists /\ games'[g].exists) =>
              StatusRank(games'[g].status) >= StatusRank(games[g].status)]_vars

\* C2: a fetched flag that is true in the stored record is still true after
\* any run of a pipeline stage, of the schedule check or of the hourly sweep.
FlagsAreMonotonic ==
    [][\A g \in GameIds :
          \A i \in 1..5 : Flags(games[g])[i] => Flags(games'[g])[i]]_vars

\* C2 witness: the T+0 stage ran again on a record with every flag set.
FlagsSurviveRerun ==
    \E g \in GameIds :
        /\ last.op = "immediate" /\ last.result = "ok" /\ last.game = g
        /\ Flags(games[g]) = <<TRUE, TRUE, TRUE, TRUE, TRUE>>
        /\ games[g].raw # None /\ games[g].raw[1].goals = None

\* C3: a successful run of the T+0 stage on a FINAL/OFF game whose
\* basic_stats_fetched is already true, with the boxscore that is stored,
\* leaves scores, scorers, raw payload (merged goals included), status and
\* flags of the stored record as they were.
ImmediateRerunChangesNothing ==
    [][\A g \in GameIds, b \in BoxscoreIds :
          ( /\ process_game_immediate(g, Some(b))
            /\ games[g].exists
            /\ games[g].basic_stats_fetched
            /\ games[g].status \in {"FINAL", "OFF"}
            /\ games[g].raw # None
            /\ games[g].raw[1].box = Some(b) )
          => /\ games'[g].away_score = games[g].away_score
             /\ games'[g].home_score = games[g].home_score
             /\ games'[g].scorers = games[g].scorers
             /\ games'[g].raw = games[g].raw
             /\ games'[g].status = games[g].status
             /\ Flags(games'[g]) = Flags(games[g])]_vars

\* C4: the store never holds two Video rows with the same (game_id, youtube_id).
NoTwoRowsForOneVideo ==
    \A v \in videos, w \in videos :
        (v.game_id = w.game_id /\ v.youtube_id = w.youtube_id) => v = w

\* C4 witness: a run offered one video id for both categories and the
\* constraint refused the second row, while the game already has a video.
DuplicateWasRefused ==
    /\ last.op \in {"enrich", "archive"}
    /\ last.error = "commit"
    /\ videos # {}

StageOffset(op) ==
    CASE op = "immediate" -> 0
      [] op = "detailed"  -> 1
      [] op = "reddit"    -> 2
      [] op = "enrich"    -> 3
      [] op = "quotes"    -> 4
      [] op = "archive"   -> 5
      [] OTHER            -> 0

\* the stage that runs before this one
StageBefore(op) ==
    CASE op = "immediate" -> "init"
      [] op = "detailed"  -> "immediate"
      [] op = "reddit"    -> "detailed"
      [] op = "enrich"    -> "reddit"
      [] op = "quotes"    -> "enrich"
      [] op = "archive"   -> "quotes"
      [] OTHER            -> "-"

Due(op) == last.op = StageBefore(op) /\ now = StageOffset(op)
Succeeded == last'.result = "ok" /\ last'.error = "none"

E2EImmediate ==
    /\ Due("immediate")
    /\ \E g \in GameIds, b \in BoxscoreIds : process_game_immediate(g, Some(b))
    /\ Succeeded
E2EDetailedStats ==
    /\ Due("detailed")
    /\ \E g \in GameIds, p \in Pbps : process_game_detailed_stats(g, Some(p))
    /\ Succeeded
E2EReddit ==
    /\ Due("reddit")
    /\ \E g \in GameIds, fault \in StoreFaults : process_game_reddit(g, fault)
    /\ Succeeded
E2EVideosAndRecap ==
    /\ Due("enrich")
    /\ \E g \in GameIds, in \in EnrichInputs : process_game_videos_and_recap(g, in)
    /\ Succeeded
E2EQuotes ==
    /\ Due("quotes")
    /\ \E g \in GameIds, fault \in StoreFaults : process_game_quotes(g, fault)
    /\ Succeeded
E2EArchive ==
    /\ Due("archive")
    /\ \E g \in GameIds, in \in EnrichInputs : archive_game(g, in)
    /\ Succeeded

InitE2E ==
    /\ games = [g \in {1} |-> CheckRow(NoGame, "FINAL", 0)]
    /\ videos = {}
    /\ nextVideoId = 1
    /\ now = 0
    /\ last = Outcome("init", 0, "ok")
    /\ triggers = [g \in {1} |-> TRUE]
    /\ RosterIdle
    /\ ApiIdle

NextE2E ==
    \/ E2EImmediate
    \/ E2EDetailedStats
    \/ E2EReddit
    \/ E2EVideosAndRecap
    \/ E2EQuotes
    \/ E2EArchive
    \/ Tick

SpecE2E == InitE2E /\ [][NextE2E]_vars

\* what the scenario says of a step: the status changes only from FINAL to
\* COMPLETE and from COMPLETE to ARCHIVED, and status_updated_at is later
\* after each change
E2EStep(g) ==
    games'[g].status # games[g].status =>
        /\ <<games[g].status, games'[g].status>> \in
               {<<"FINAL", "COMPLETE">>, <<"COMPLETE", "ARCHIVED">>}
        /\ games[g].status_updated_at # None
        /\ games'[g].status_updated_at # None
        /\ games'[g].status_updated_at[1] > games[g].status_updated_at[1]

\* the sixth stage has run
E2EOver == last.op = "archive"

\* what the scenario says of the final record, Video row apart
E2ERecord(g) ==
    /\ games[g].status = "ARCHIVED"
    /\ games[g].recap_text # None
    /\ games[g].summary_line # None

\* C10 as stated: in the end-to-end run the status goes FINAL -> COMPLETE ->
\* ARCHIVED, status_updated_at advancing at each change, and the final
\* record has recap_text, summary_line and at least one Video row.
E2EAlwaysEndsWithVideo ==
    [][\A g \in GameIds :
          /\ E2EStep(g)
          /\ E2EOver' => /\ E2ERecord(g)'
                         /\ \E v \in videos' : v.game_id = g]_vars

\* C10 amended: the same, the Video row being there when the T+4h search
\* returned a video for at least one category.
E2EEndsWithVideoIfFound ==
    [][\A g \in GameIds :
          /\ E2EStep(g)
          /\ videos \subseteq videos'
          /\ \A in \in EnrichInputs :
                (process_game_videos_and_recap(g, in)
                 /\ (in.res.nhl_official # None \/ in.res.professor_hockey # None))
                => \E v \in videos' : v.game_id = g
          /\ E2EOver' => E2ERecord(g)']_vars

\* C10 witness: the scenario ended with the record ARCHIVED, completed before
\* it was archived, with recap and two Video rows.
E2EEndedWithVideos ==
    \E g \in GameIds :
        /\ E2EOver /\ E2ERecord(g)
        /\ games[g].completed_at # None /\ games[g].archived_at # None
        /\ games[g].completed_at[1] < games[g].archived_at[1]
        /\ Cardinality({v \in videos : v.game_id = g}) = 2

(***************************************************************************)
(* The roster job alone: serialized runs against any upstream roster, on   *)
(* any day, from a store where no player has two open stints with a team.  *)
(***************************************************************************)
\* the stores the runs start from
InitialStores ==
    { [history |-> {}, next |-> 1,
       player_info |-> [p \in {1, 2, 3} |-> NoInfo]],
      [history |-> {HistoryRow(1, 1, SHARKS_TEAM_ID, "San Jose Sharks", 0, None),
                    HistoryRow(2, 2, SHARKS_TEAM_ID, "San Jose Sharks", 0, None)},
       next |-> 3,
       player_info |-> [p \in {1, 2, 3} |->
            CASE p = 1 -> CreatedInfo(Celebrini)
              [] p = 2 -> [CreatedInfo(Ferraro) EXCEPT !.jersey_number = Some(83)]
              [] OTHER -> NoInfo]],
      [history |-> {HistoryRow(1, 1, SHARKS_TEAM_ID, "San Jose Sharks", 0, None),
                    HistoryRow(2, 3, SHARKS_TEAM_ID, "San Jose Sharks", 0, Some(0)),
                    HistoryRow(3, 3, "SJB", "San Jose Barracuda", 0, None)},
       next |-> 4,
       player_info |-> [p \in {1, 2, 3} |->
            CASE p = 1 -> CreatedInfo(Celebrini)
              [] p = 3 -> CreatedInfo(Askarov)
              [] OTHER -> NoInfo]] }

PipelineIdle ==
    /\ games = [g \in {1} |-> NoGame]
    /\ videos = {}
    /\ nextVideoId = 1
    /\ now = 0
    /\ last = Outcome("init", 0, "ok")
    /\ triggers = [g \in {1} |-> FALSE]

InitRoster ==
    /\ \E s \in InitialStores :
          /\ history = s.history
          /\ player_info = s.player_info
          /\ nextHistoryId = s.next
    /\ today = 0
    /\ lastSync = NoSync
    /\ PipelineIdle
    /\ ApiIdle

RunSync ==
    \E r \in RosterNames, fault \in SyncFaults, done \in SUBSET PlayerIds :
        sync_sharks_roster(r, fault, done)

NextRoster ==
    \/ RunSync
    \/ NewDay

SpecRoster == InitRoster /\ [][NextRoster]_vars

\* a run of the job has just ended
SyncRan == lastSync'.run # lastSync.run
OpenOn(rows, team) == {h \in rows : h.team_id = team /\ h.end_date = None}
RowsOf(rows, p) == {h \in rows : h.player_id = p}
Teams == {SHARKS_TEAM_ID, "SJB"}

\* C5: a successful run closes today the open stint of every player the
\* store has open and the roster lacks, opens today exactly one stint for
\* every player the roster has and the store has not open, with the player's
\* PlayerInfo created or brought up to date, touches no stint of the players
\* in both, and leaves the roster's ids as the team's open stints.
SyncIsTheSetDiff ==
    [][(SyncRan /\ lastSync'.result = "ok") =>
          LET L == {h.player_id : h \in OpenOn(history, SHARKS_TEAM_ID)}
              E == api_player_ids(Rosters(lastSync'.roster))
              map == api_players_map(Rosters(lastSync'.roster))
              fresh == {h \in history' : h.id \notin {k.id : k \in history}}
          IN  /\ \A h \in OpenOn(history, SHARKS_TEAM_ID) :
                    h.player_id \in L \ E =>
                        [h EXCEPT !.end_date = Some(today)] \in history'
              /\ \A p \in E \ L :
                    /\ Cardinality(RowsOf(fresh, p)) = 1
                    /\ \A h \in RowsOf(fresh, p) :
                          /\ h.team_id = SHARKS_TEAM_ID
                          /\ h.start_date = today
                          /\ h.end_date = None
                    /\ player_info'[p].exists
                    /\ player_info'[p].jersey_number = map[p].sweaterNumber
                    /\ player_info'[p].position = map[p].positionCode
              /\ \A p \in L \cap E : RowsOf(history', p) = RowsOf(history, p)
              /\ \A h \in fresh : h.player_id \in E \ L
              /\ \A h \in history :
                    h \in history' \/ (h \in OpenOn(history, SHARKS_TEAM_ID)
                                       /\ h.player_id \in L \ E)
              /\ {h.player_id : h \in OpenOn(history', SHARKS_TEAM_ID)} = E]_vars

\* C5 witness: a run that closed one stint, opened one and renumbered one
\* player ended with the roster's players open.
OneRemovedOneAddedOneUpdated ==
    /\ lastSync.result = "ok" /\ lastSync.roster = "BC" /\ lastSync.changes = 3
    /\ \E h \in history : h.player_id = 1 /\ h.end_date = Some(today)
    /\ {h.player_id : h \in OpenOn(history, SHARKS_TEAM_ID)} = {2, 3}
    /\ player_info[2].jersey_number = Some(38)

\* C6: a successful run that follows a successful run with the same
\* upstream roster changes no PlayerTeamHistory or PlayerInfo row and
\* returns 0.
SecondRunChangesNothing ==
    [][(SyncRan /\ lastSync.result = "ok" /\ lastSync'.result = "ok"
        /\ lastSync'.roster = lastSync.roster) =>
          /\ history' = history
          /\ player_info' = player_info
          /\ lastSync'.changes = 0]_vars

\* C6 witness: the second of two runs with the same roster ended, the first
\* having opened stints.
SameRosterRanTwice ==
    /\ lastSync.repeat /\ lastSync.result = "ok" /\ lastSync.changes = 0
    /\ \E h \in history : h.end_date = None /\ h.id >= 4

\* C7: no player ever has two open stints with one team, and a run opens no
\* stint for a player who has one open with the team.
AtMostOneOpenStint ==
    /\ [](\A p \in PlayerIds, t \in Teams :
             Cardinality(RowsOf(OpenOn(history, t), p)) <= 1)
    /\ [][\A h \in OpenOn(history, SHARKS_TEAM_ID) :
             \A k \in history' : (k.player_id = h.player_id /\ k.end_date = None
                                  /\ k.team_id = SHARKS_TEAM_ID) => k.id = h.id]_vars

\* C7 witness: after three runs a player who left and came back has one
\* closed stint and one open stint with the team.
CameBackWithOneOpenStint ==
    /\ lastSync.run = 3
    /\ \E h, k \in history :
          /\ h.player_id = k.player_id
          /\ h.team_id = SHARKS_TEAM_ID /\ k.team_id = SHARKS_TEAM_ID
          /\ h.end_date # None /\ k.end_date = None /\ h.id < k.id
          /\ h.id >= 4

\* C8: a run that raises leaves the stored PlayerTeamHistory and PlayerInfo
\* rows as they were before it.
FailedSyncChangesNothing ==
    [][(SyncRan /\ lastSync'.result = "raised") =>
          /\ history' = history
          /\ player_info' = player_info]_vars

\* C8 witness: a run raised with a stint closed and a stint opened.
RaisedWithChangesPending ==
    /\ lastSync.result = "raised"
    /\ lastSync.undone >= 2
    /\ history # {}

(***************************************************************************)
(* The hourly sweep as a safety net: the enrichment stage, the archive     *)
(* stage and the sweep in any order, the sweep running again and again     *)
(* with its upstream calls succeeding.                                     *)
(***************************************************************************)
\* a run of the sweep in which no call fails
SweepSucceeds ==
    \E in \in SweepInputs :
        /\ \A g \in Selected : in[g].fault = "none"
        /\ check_and_fetch_videos_job([g \in Selected |-> in[g].res],
                                      [g \in Selected |-> in[g].fault])

NextSweep ==
    \/ RunVideosAndRecap
    \/ RunArchive
    \/ RunSweep

SpecSweep == Init /\ [][NextSweep]_vars /\ WF_vars(SweepSucceeds)

\* the statuses of a game that is over
OverStatuses == {"FINAL", "OFF", "COMPLETE", "ARCHIVED"}

\* C11: a game that is over and has videos_fetched false eventually has
\* videos_fetched true, the sweep running again and again with its upstream
\* calls succeeding.
SweepEventuallyFetches ==
    \A g \in {1} :
        (games[g].exists /\ games[g].status \in OverStatuses
         /\ ~games[g].videos_fetched)
        ~> games[g].videos_fetched

(***************************************************************************)
(* The trigger: schedule checks of two games at any time of day,           *)
(* interleaved with runs of the T+0 stage that succeed or fail.            *)
(***************************************************************************)
InitTrigger ==
    /\ games \in [{1, 2} -> {NoGame, ArchiveRow(NewGame("FINAL"), 0)}
                            \cup {NewGame(st) : st \in InitialStatuses}]
    /\ videos = {}
    /\ nextVideoId = 1
    /\ now \in {0, MaxTime}
    /\ last = Outcome("init", 0, "ok")
    /\ triggers = [g \in {1, 2} |-> FALSE]
    /\ RosterIdle
    /\ ApiIdle

NextTrigger ==
    \/ RunCheck
    \/ RunImmediate

SpecTrigger == InitTrigger /\ [][NextTrigger]_vars

\* the game is one the check has to schedule: over upstream, not archived
\* and without basic stats in the store
ToSchedule(g, entry) ==
    /\ entry.gameState \in {"FINAL", "OFF"}
    /\ games[g].exists => /\ games[g].status # "ARCHIVED"
                          /\ ~games[g].basic_stats_fetched

\* C12: a run of the check that returns schedules the stage sequence for
\* exactly the listed games that are over upstream, not ARCHIVED in the store
\* and without basic stats; it schedules each from kickoff + 2h30min if that
\* is not in the past and from the current time otherwise, and returns the
\* number of games it scheduled.
CheckSchedulesTheFinishedGames ==
    [][\A schedule \in ScheduleFetches :
          (last'.op = "check" /\ last'.result = "ok" /\ schedule # None
           /\ check_upcoming_games(schedule)) =>
              LET s == schedule[1]
                  due == {g \in DOMAIN s : ToSchedule(g, s[g])}
              IN  /\ {c[1] : c \in last'.scheduled} = due
                  /\ \A g \in GameIds : triggers'[g] = (triggers[g] \/ g \in due)
                  /\ \A c \in last'.scheduled :
                        /\ c[2] >= now
                        /\ c[2] \in {now, s[c[1]].gameDate + 5}
                        /\ s[c[1]].gameDate + 5 >= now => c[2] = s[c[1]].gameDate + 5
                  /\ last'.count = Cardinality(due)]_vars

\* C12 witness: one run scheduled a game that kicked off long ago from the
\* current time and a game that kicked off just now from its estimated end.
ScheduledOneNowOneLater ==
    /\ last.op = "check" /\ last.count = 2
    /\ now = 0
    /\ last.scheduled = {<<1, 0>>, <<2, 5>>}

\* C13: a check schedules the stage sequence of a game only if no sequence
\* was scheduled for the game before, whether or not the T+0 stage has run
\* or failed since.
SequenceScheduledOnce ==
    [][\A g \in GameIds :
          (last'.op = "check" /\ g \in {c[1] : c \in last'.scheduled})
          => ~triggers[g]]_vars

(***************************************************************************)
(* Failures of the stages.                                                 *)
(***************************************************************************)
\* C14: a T+0 or T+4h stage that raises leaves the game's flags and status
\* in the store as they were, also when the T+4h stage was called by the
\* archive stage, which then advances nothing but its own status.
CriticalFailureStoresNothing ==
    [][\A g \in GameIds :
          /\ (last'.game = g /\ last'.op \in {"immediate", "enrich"}
              /\ last'.result = "raised")
             => /\ Flags(games'[g]) = Flags(games[g])
                /\ games'[g].status = games[g].status
          /\ (last'.game = g /\ last'.op = "archive" /\ last'.retry = "raised")
             => /\ games'[g].videos_fetched = games[g].videos_fetched
                /\ games'[g].recap_generated = games[g].recap_generated]_vars

\* C15: a non-critical stage never raises, and one in which something failed
\* leaves the flags of the game as they were.
NonCriticalStagesSwallow ==
    [][\A g \in GameIds :
          (last'.game = g /\ last'.op \in {"detailed", "reddit", "quotes"}) =>
              /\ last'.result # "raised"
              /\ last'.error # "none" => Flags(games'[g]) = Flags(games[g])]_vars

(***************************************************************************)
(* The sweep over two games, any of which may fail.                        *)
(***************************************************************************)
InitSweepTwo ==
    /\ games \in [{1, 2} -> {NoGame} \cup {NewGame(st) : st \in InitialStatuses}]
    /\ videos = {}
    /\ nextVideoId = 1
    /\ now = 0
    /\ last = Outcome("init", 0, "ok")
    /\ triggers = [g \in {1, 2} |-> FALSE]
    /\ RosterIdle
    /\ ApiIdle

NextSweepTwo == RunSweep

SpecSweepTwo == InitSweepTwo /\ [][NextSweepTwo]_vars

FinishedGame ==
    [NewGame("FINAL") EXCEPT !.away_score = Some(2), !.home_score = Some(1)]
SampleDb == [games |-> [g \in {1} |-> FinishedGame], videos |-> {}]

\* the values handed to set: JSON values and the objects the endpoints cache
PyValues ==
    { PyNone, PyInt("7"), PyStr("SJS"), PyList(<<>>),
      PyList(<<PyInt("7"), PyStr("SJS")>>),
      PyDatetime("2025-01-01 00:00:00"),
      GameDetail(SampleDb, 1),
      PyList(<<GameSummary(SampleDb, 1)>>) }

Patterns == {"games:*", "game:*"}

IdleButCache ==
    /\ games = [g \in {1} |-> NoGame]
    /\ videos = {}
    /\ nextVideoId = 1
    /\ now = 0
    /\ last = Outcome("init", 0, "ok")
    /\ triggers = [g \in {1} |-> FALSE]
    /\ RosterIdle
    /\ requests = <<>>
    /\ comments = [c \in CommentIds |-> NoComment]
    /\ lastComment = CommentCall("init", 0, FALSE)

InitCache ==
    /\ cache \in {RedisCache(enabled, EmptyStore) : enabled \in BOOLEAN}
    /\ lastCall = ApiCall("init")
    /\ IdleButCache

CacheSet ==
    \E key \in CacheKeys, value \in PyValues, fault \in CacheFaults :
        LET r == cache_set(cache, key, value, DefaultTtl, fault)
        IN  /\ cache' = r.cache
            /\ lastCall' = [ApiCall("set") EXCEPT
                               !.key = key, !.value = value, !.fault = fault,
                               !.ok = r.result,
                               !.invalidated = IF r.result THEN lastCall.invalidated \ {key}
                                               ELSE lastCall.invalidated]
            /\ UNCHANGED <<pipeVars, rosterVars, requests, comments, lastComment>>

CacheGet ==
    \E key \in CacheKeys, fault \in CacheFaults :
        /\ lastCall' = [ApiCall("get") EXCEPT
                           !.key = key, !.fault = fault,
                           !.value = cache_get(cache, key, fault),
                           !.invalidated = lastCall.invalidated]
        /\ UNCHANGED <<pipeVars, rosterVars, cache, requests, comments, lastComment>>

CacheInvalidate ==
    \E key \in CacheKeys, fault \in CacheFaults :
        LET r == cache_invalidate(cache, key, fault)
        IN  /\ cache' = r.cache
            /\ lastCall' = [ApiCall("invalidate") EXCEPT
                               !.key = key, !.fault = fault, !.ok = r.result,
                               !.invalidated = IF fault = "none"
                                               THEN lastCall.invalidated \cup {key}
                                               ELSE lastCall.invalidated]
            /\ UNCHANGED <<pipeVars, rosterVars, requests, comments, lastComment>>

CacheInvalidatePattern ==
    \E pattern \in Patterns, fault \in CacheFaults :
        LET r == cache_invalidate_pattern(cache, pattern, fault)
        IN  /\ cache' = r.cache
            /\ lastCall' = [ApiCall("invalidate_pattern") EXCEPT
                               !.pattern = pattern, !.fault = fault, !.count = r.result,
                               !.invalidated =
                                   IF fault = "none"
                                   THEN lastCall.invalidated
                                        \cup {k \in CacheKeys : glob(pattern, k)}
                                   ELSE lastCall.invalidated]
            /\ UNCHANGED <<pipeVars, rosterVars, requests, comments, lastComment>>

\* the ttl of an entry passes
CacheExpire ==
    \E key \in CacheKeys :
        /\ cache.store[key] # None
        /\ cache' = expire(cache, key)
        /\ lastCall' = [ApiCall("expire") EXCEPT
                           !.key = key, !.invalidated = lastCall.invalidated]
        /\ UNCHANGED <<pipeVars, rosterVars, requests, comments, lastComment>>

NextCache ==
    CacheSet \/ CacheGet \/ CacheInvalidate \/ CacheInvalidatePattern \/ CacheExpire

SpecCache == InitCache /\ [][NextCache]_vars

\* C17: a get that follows a successful set of the same key at once returns
\* a value equal to the one that was set; and a get of a key that was
\* invalidated and not set since returns a miss (None).
CacheRoundTrip ==
    [][/\ ( /\ lastCall.op = "set" /\ lastCall.ok
            /\ lastCall'.op = "get" /\ lastCall'.key = lastCall.key
            /\ lastCall'.fault = "none" )
          => lastCall'.value = lastCall.value
       /\ ( /\ lastCall'.op = "get"
            /\ lastCall'.key \in lastCall.invalidated )
          => lastCall'.value = PyNone]_vars

(***************************************************************************)
(* The game endpoints, one request at a time, over a cache that may fail.  *)
(***************************************************************************)
ApiGames == {1}
ApiVideos == {{}, {VideoRow(1, 1, "v1", "nhl_official")}}

IdleButApi ==
    /\ nextVideoId = 2
    /\ now = 0
    /\ last = Outcome("init", 0, "ok")
    /\ triggers = [g \in ApiGames |-> FALSE]
    /\ RosterIdle
    /\ comments = [c \in CommentIds |-> NoComment]
    /\ lastComment = CommentCall("init", 0, FALSE)

InitApi ==
    /\ games \in [ApiGames -> {NoGame, FinishedGame}]
    /\ videos \in {v \in ApiVideos : \A w \in v : games[w.game_id].exists}
    /\ cache \in {RedisCache(enabled, EmptyStore) : enabled \in BOOLEAN}
    /\ lastCall = ApiCall("init")
    /\ requests = <<>>
    /\ IdleButApi

\* the store a handler's session reads and writes
Db == [games |-> games, videos |-> videos]

\* a connected cache that holds nothing
ColdCache == RedisCache(TRUE, EmptyStore)

\* the outcome of a request: the cache calls that did not go through, the
\* response, and the response of the same request over a cold cache
Handled(op, r, miss) ==
    [ApiCall(op) EXCEPT !.failed = r.failed, !.response = r.result, !.miss = miss.result]

RunGetGame ==
    \E g \in ApiGames, f \in FaultsOf({"get", "set"}) :
        LET r == get_game(cache, Db, g, f)
            miss == get_game(ColdCache, Db, g, NoFaults)
        IN  /\ cache' = r.cache
            /\ games' = r.db.games
            /\ videos' = r.db.videos
            /\ lastCall' = Handled("get_game", r, miss)
            /\ UNCHANGED <<nextVideoId, now, last, triggers>>
            /\ UNCHANGED <<rosterVars, requests, comments, lastComment>>

RunGetRecentGames ==
    \E f \in FaultsOf({"get", "set"}) :
        LET r == get_recent_games(cache, Db, RecentLimit, f)
            miss == get_recent_games(ColdCache, Db, RecentLimit, NoFaults)
        IN  /\ cache' = r.cache
            /\ games' = r.db.games
            /\ videos' = r.db.videos
            /\ lastCall' = Handled("get_recent_games", r, miss)
            /\ UNCHANGED <<nextVideoId, now, last, triggers>>
            /\ UNCHANGED <<rosterVars, requests, comments, lastComment>>

RunCreateGame ==
    \E g \in ApiGames, f \in FaultsOf({"invalidate_pattern", "get", "set"}) :
        LET r == create_game(cache, Db, g, f)
            miss == create_game(ColdCache, Db, g, NoFaults)
        IN  /\ cache' = r.cache
            /\ games' = r.db.games
            /\ videos' = r.db.videos
            /\ lastCall' = Handled("create_game", r, miss)
            /\ UNCHANGED <<nextVideoId, now, last, triggers>>
            /\ UNCHANGED <<rosterVars, requests, comments, lastComment>>

RunUpdateGame ==
    \E g \in ApiGames, i \in DOMAIN GameUpdates, f \in RequestFaults :
        LET r == update_game(cache, Db, g, GameUpdates[i], f, now)
            miss == update_game(ColdCache, Db, g, GameUpdates[i], NoFaults, now)
        IN  /\ cache' = r.cache
            /\ games' = r.db.games
            /\ videos' = r.db.videos
            /\ lastCall' = Handled("update_game", r, miss)
            /\ UNCHANGED <<nextVideoId, now, last, triggers>>
            /\ UNCHANGED <<rosterVars, requests, comments, lastComment>>

RunDeleteGame ==
    \E g \in ApiGames, f \in FaultsOf({"invalidate", "invalidate_pattern"}) :
        LET r == delete_game(cache, Db, g, f)
            miss == delete_game(ColdCache, Db, g, NoFaults)
        IN  /\ cache' = r.cache
            /\ games' = r.db.games
            /\ videos' = r.db.videos
            /\ lastCall' = Handled("delete_game", r, miss)
            /\ UNCHANGED <<nextVideoId, now, last, triggers>>
            /\ UNCHANGED <<rosterVars, requests, comments, lastComment>>

NextApi ==
    RunGetGame \/ RunGetRecentGames \/ RunCreateGame \/ RunUpdateGame \/ RunDeleteGame

SpecApi == InitApi /\ [][NextApi]_vars

RequestOps ==
    {"get_game", "get_recent_games", "create_game", "update_game", "delete_game"}

\* over the cache as it is, a call that does not go through (backend
\* disabled, or the client raises) returns the soft result and stores nothing
FailedCallsAreSoft ==
    \A fault \in CacheFaults :
        (~cache.enabled \/ fault # "none") =>
            /\ \A key \in CacheKeys :
                  /\ cache_get(cache, key, fault) = PyNone
                  /\ cache_invalidate(cache, key, fault) = [cache |-> cache, result |-> FALSE]
                  /\ \A value \in PyValues :
                        cache_set(cache, key, value, DefaultTtl, fault)
                            = [cache |-> cache, result |-> FALSE]
            /\ \A pattern \in Patterns :
                  cache_invalidate_pattern(cache, pattern, fault)
                      = [cache |-> cache, result |-> 0]

\* what a response says, whatever the type that carries it: the outcome, the
\* field values of the body and of its elements
Content(response) ==
    [code |-> response.code, data |-> response.body.data,
     items |-> [i \in DOMAIN response.body.items |-> response.body.items[i].data]]

\* C18: a cache call that does not go through returns the soft result (get
\* None, set False, invalidate False, invalidate_pattern 0), and a request
\* in which a cache call did not go through completes with the result it
\* gives on a cache miss.
CacheFailureGivesTheMissResult ==
    /\ []FailedCallsAreSoft
    /\ [][(lastCall'.op \in RequestOps /\ lastCall'.failed # {})
              => Content(lastCall'.response) = Content(lastCall'.miss)]_vars

\* C18 (amended): a cache call that does not go through returns the soft
\* result, every request completes with a response, and a request whose
\* cache read did not go through completes with the response it gives on a
\* cache miss.
CacheFailureIsAMiss ==
    /\ []FailedCallsAreSoft
    /\ [][lastCall'.op \in RequestOps =>
              /\ lastCall'.response.code \in {"ok", "not_found", "bad_request", "no_content"}
              /\ ("get" \in lastCall'.failed \/ lastCall'.op = "delete_game")
                     => lastCall'.response = lastCall'.miss]_vars

\* C18 witness: an update whose four cache calls all raised left the old
\* entry in the cache and returned the updated game read from the store.
UpdateBypassedTheFailingCache ==
    /\ lastCall.op = "update_game"
    /\ lastCall.failed = {"get", "set", "invalidate", "invalidate_pattern"}
    /\ cache.enabled
    /\ cache.store[GameKey(1)] # None
    /\ lastCall.response.body = GameDetail(Db, 1)
    /\ json_loads(cache.store[GameKey(1)][1].value) # py_str(GameDetail(Db, 1))

(***************************************************************************)
(* Concurrent requests on one game: two get_game readers and one           *)
(* update_game or delete_game, each handler advancing one call at a time.  *)
(***************************************************************************)
Readers == {"r1", "r2"}
Writer == "w"

\* the cache holds nothing, or the entry an earlier get_game stored
WarmCache(db) == cache_set(ColdCache, GameKey(1), GameDetail(db, 1), DefaultTtl, "none").cache

InitRace ==
    /\ games = [g \in ApiGames |-> FinishedGame]
    /\ videos \in ApiVideos
    /\ cache \in {ColdCache, WarmCache(Db)}
    /\ lastCall = ApiCall("init")
    /\ requests = [r \in Readers \cup {Writer} |-> NoRequest]
    /\ IdleButApi

RaceUnchanged ==
    /\ UNCHANGED <<nextVideoId, now, last, triggers>>
    /\ UNCHANGED <<rosterVars, lastCall, comments, lastComment>>

\* a get_game request arrives
StartRead ==
    \E r \in Readers :
        /\ requests[r].pc = "idle"
        /\ requests' = [requests EXCEPT
                           ![r].op = "get_game", ![r].pc = "cache_get",
                           ![r].after = (requests[Writer].pc = "done")]
        /\ UNCHANGED <<games, videos, cache>>
        /\ RaceUnchanged

\* an update_game or a delete_game request arrives
StartWrite ==
    \E op \in {"update_game", "delete_game"}, i \in DOMAIN GameUpdates :
        /\ requests[Writer].pc = "idle"
        /\ op = "delete_game" => i = 1
        /\ requests' = [requests EXCEPT
                           ![Writer].op = op, ![Writer].pc = "commit",
                           ![Writer].update = i]
        /\ UNCHANGED <<games, videos, cache>>
        /\ RaceUnchanged

\* game_crud.update_game / game_crud.delete_game: load the row, change it,
\* commit
Commit ==
    /\ requests[Writer].pc = "commit"
    /\ IF ~games[1].exists
       THEN /\ requests' = [requests EXCEPT
                               ![Writer].pc = "done",
                               ![Writer].response = Response("not_found", PyNone)]
            /\ UNCHANGED <<games, videos>>
       ELSE /\ requests' = [requests EXCEPT
                               ![Writer].pc = "invalidate",
                               ![Writer].before = GameDetail(Db, 1)]
            /\ IF requests[Writer].op = "update_game"
               THEN /\ games' = [games EXCEPT ![1] =
                                    UpdatedRow(@, GameUpdates[requests[Writer].update], now)]
                    /\ UNCHANGED videos
               ELSE /\ games' = DeletedDb(Db, 1).games
                    /\ videos' = DeletedDb(Db, 1).videos
    /\ UNCHANGED cache
    /\ RaceUnchanged

\* cache.invalidate(f"game:{game_id}")
Invalidate ==
    /\ requests[Writer].pc = "invalidate"
    /\ cache' = cache_invalidate(cache, GameKey(1), "none").cache
    /\ requests' = [requests EXCEPT ![Writer].pc = "invalidate_pattern"]
    /\ UNCHANGED <<games, videos>>
    /\ RaceUnchanged

\* cache.invalidate_pattern("games:*"); update_game goes on to get_game,
\* delete_game returns
InvalidatePattern ==
    /\ requests[Writer].pc = "invalidate_pattern"
    /\ cache' = cache_invalidate_pattern(cache, "games:*", "none").cache
    /\ requests' = IF requests[Writer].op = "update_game"
                   THEN [requests EXCEPT ![Writer].pc = "cache_get"]
                   ELSE [requests EXCEPT
                            ![Writer].pc = "done",
                            ![Writer].response = Response("no_content", PyNone)]
    /\ UNCHANGED <<games, videos>>
    /\ RaceUnchanged

\* get_game: cached_result = cache.get(cache_key); a hit returns
ReadCache ==
    \E r \in Readers \cup {Writer} :
        /\ requests[r].pc = "cache_get"
        /\ LET cached_result == cache_get(cache, GameKey(1), "none")
           IN  requests' = IF cached_result # PyNone
                           THEN [requests EXCEPT
                                    ![r].pc = "done", ![r].hit = TRUE,
                                    ![r].response = Response("ok", cached_result)]
                           ELSE [requests EXCEPT ![r].pc = "query"]
        /\ UNCHANGED <<games, videos, cache>>
        /\ RaceUnchanged

\* get_game: the queries of the miss branch; no row is the 404
QueryDb ==
    \E r \in Readers \cup {Writer} :
        /\ requests[r].pc = "query"
        /\ requests' = IF ~games[1].exists
                       THEN [requests EXCEPT
                                ![r].pc = "done",
                                ![r].response = Response("not_found", PyNone)]
                       ELSE [requests EXCEPT
                                ![r].pc = "cache_set",
                                ![r].snapshot = GameDetail(Db, 1)]
        /\ UNCHANGED <<games, videos, cache>>
        /\ RaceUnchanged

\* get_game: cache.set(cache_key, game_detail, ttl=300); return game_detail
WriteCache ==
    \E r \in Readers \cup {Writer} :
        /\ requests[r].pc = "cache_set"
        /\ cache' = cache_set(cache, GameKey(1), requests[r].snapshot,
                              DefaultTtl, "none").cache
        /\ requests' = [requests EXCEPT
                           ![r].pc = "done",
                           ![r].response = Response("ok", requests[r].snapshot)]
        /\ UNCHANGED <<games, videos>>
        /\ RaceUnchanged

\* the ttl of the game's entry passes
ExpireEntry ==
    /\ cache.store[GameKey(1)] # None
    /\ cache' = expire(cache, GameKey(1))
    /\ UNCHANGED <<games, videos, requests>>
    /\ RaceUnchanged

NextRace ==
    \/ StartRead \/ StartWrite \/ Commit \/ Invalidate \/ InvalidatePattern
    \/ ReadCache \/ QueryDb \/ WriteCache \/ ExpireEntry

SpecRace == InitRace /\ [][NextRace]_vars

\* the request returned, having arrived after the write request returned
ReadAfterWrite(r) == requests[r].pc = "done" /\ requests[r].after

\* the response carries what the game was before the write and no longer is:
\* the pre-update fields after an update, anything but not-found after a
\* delete
Stale(r) ==
    IF requests[Writer].op = "update_game"
    THEN /\ requests[r].response.code = "ok"
         /\ requests[r].response.body.data = requests[Writer].before.data
         /\ requests[Writer].before.data # GameDetail(Db, 1).data
    ELSE requests[r].response.code # "not_found"

InitComments ==
    /\ PipelineIdle
    /\ RosterIdle
    /\ cache = RedisCache(FALSE, EmptyStore)
    /\ lastCall = ApiCall("init")
    /\ requests = <<>>
    /\ comments \in { [c \in CommentIds |->
                          IF c = 1 THEN CommentRow("nice goal", None)
                          ELSE IF c = 2 /\ reply THEN CommentRow("what a pass", Some(1))
                          ELSE NoComment] : reply \in BOOLEAN }
    /\ lastComment = CommentCall("init", 0, FALSE)

RunDeleteComment ==
    \E comment_id \in CommentIds :
        LET r == delete_comment(comments, comment_id, now)
        IN  /\ comments' = r.comments
            /\ lastComment' = CommentCall("delete_comment", comment_id, r.result)
            /\ UNCHANGED <<pipeVars, rosterVars, cache, lastCall, requests>>

RunFlagComment ==
    \E comment_id \in CommentIds :
        LET r == flag_comment(comments, comment_id, now)
        IN  /\ comments' = r.comments
            /\ lastComment' = CommentCall("flag_comment", comment_id, r.result)
            /\ UNCHANGED <<pipeVars, rosterVars, cache, lastCall, requests>>

NextComments == RunDeleteComment \/ RunFlagComment \/ Tick

SpecComments == InitComments /\ [][NextComments]_vars

\* the row but for its update stamp
Unstamped(row) == [row EXCEPT !.updated_at = 0]

\* C20: delete_comment on an existing comment keeps the row and every other
\* row (its replies), sets is_deleted and replaces the stored content with
\* "[deleted]"; flag_comment sets is_flagged and changes nothing else (the
\* update stamp aside); both return False and change nothing when the
\* comment does not exist.
SoftDeleteRedactsAndFlagOnlyFlags ==
    [][\A c \in CommentIds :
          (lastComment'.op \in {"delete_comment", "flag_comment"}
              /\ lastComment'.comment_id = c) =>
             IF ~comments[c].exists
             THEN ~lastComment'.result /\ comments' = comments
             ELSE /\ lastComment'.result
                  /\ \A d \in CommentIds \ {c} : comments'[d] = comments[d]
                  /\ Unstamped(comments'[c]) =
                        IF lastComment'.op = "delete_comment"
                        THEN Unstamped([comments[c] EXCEPT !.is_deleted = TRUE,
                                                           !.text = "[deleted]"])
                        ELSE Unstamped([comments[c] EXCEPT !.is_flagged = TRUE])]_vars

(***************************************************************************)
(* The comments router: authenticated update, delete and flag requests by  *)
(* two users, each with or without the admin flag, on a comment of u1, a   *)
(* reply of u2 and an id that no comment has.                              *)
(***************************************************************************)
InitCommentRequests ==
    /\ PipelineIdle
    /\ RosterIdle
    /\ cache = RedisCache(FALSE, EmptyStore)
    /\ lastCall = ApiCall("init")
    /\ requests = <<>>
    /\ comments = [c \in CommentIds |->
                      IF c = 1 THEN CommentRow("nice goal", None)
                      ELSE IF c = 2
                      THEN [CommentRow("what a pass", Some(1)) EXCEPT !.user_id = "u2"]
                      ELSE NoComment]
    /\ lastComment = CommentRequest("init", 0, [user_id |-> "u1", is_admin |-> FALSE], 0)

RunUpdateRequest ==
    \E comment_id \in CommentIds, current_user \in CurrentUsers :
        LET r == route_update_comment(comments, comment_id, "edited", current_user, now)
        IN  /\ comments' = r.comments
            /\ lastComment' = CommentRequest("update_comment", comment_id,
                                             current_user, r.status_code)
            /\ UNCHANGED <<pipeVars, rosterVars, cache, lastCall, requests>>

RunDeleteRequest ==
    \E comment_id \in CommentIds, current_user \in CurrentUsers :
        LET r == route_delete_comment(comments, comment_id, current_user, now)
        IN  /\ comments' = r.comments
            /\ lastComment' = CommentRequest("delete_comment", comment_id,
                                             current_user, r.status_code)
            /\ UNCHANGED <<pipeVars, rosterVars, cache, lastCall, requests>>

RunFlagRequest ==
    \E comment_id \in CommentIds, current_user \in CurrentUsers :
        LET r == route_flag_comment(comments, comment_id, current_user, now)
        IN  /\ comments' = r.comments
            /\ lastComment' = CommentRequest("flag_comment", comment_id,
                                             current_user, r.status_code)
            /\ UNCHANGED <<pipeVars, rosterVars, cache, lastCall, requests>>

NextCommentRequests == RunUpdateRequest \/ RunDeleteRequest \/ RunFlagRequest \/ Tick

SpecCommentRequests == InitCommentRequests /\ [][NextCommentRequests]_vars

IsAuthor(row, current_user) == row.user_id = current_user.user_id

\* C21: over any sequence of authenticated update and delete requests, the
\* stored content of a comment is changed by an update request only when the
\* requester is its author, a comment becomes soft-deleted only by a delete
\* request of its author or of an admin, and every other update or delete
\* request on a comment is answered 403 and leaves the comments unchanged.
OnlyAuthorEditsOnlyAuthorOrAdminDeletes ==
    [][\A c \in CommentIds :
          (comments[c].exists /\ lastComment'.comment_id = c
              /\ lastComment'.op \in {"update_comment", "delete_comment"}) =>
             LET user == lastComment'.current_user
                 allowed == \/ IsAuthor(comments[c], user)
                            \/ lastComment'.op = "delete_comment" /\ user.is_admin
             IN  /\ comments'[c].text # comments[c].text =>
                        lastComment'.op = "update_comment" /\ IsAuthor(comments[c], user)
                 /\ comments'[c].is_deleted # comments[c].is_deleted =>
                        /\ lastComment'.op = "delete_comment"
                        /\ IsAuthor(comments[c], user) \/ user.is_admin
                 /\ ~allowed => lastComment'.status_code = 403 /\ comments' = comments]_vars

\* a delete request of a user who is neither the author nor an admin was
\* refused on the reply, after the comment was soft-deleted by an authorized
\* request
RefusedAfterAnAuthorizedDelete ==
    /\ comments[1].is_deleted
    /\ lastComment.op = "delete_comment"
    /\ lastComment.comment_id = 2
    /\ lastComment.current_user = [user_id |-> "u1", is_admin |-> FALSE]
    /\ lastComment.status_code = 403
    /\ ~comments[2].is_deleted

\* C29: a comment that delete_comment has soft-deleted keeps is_deleted = true
\* and the content "[deleted]" through every later update, delete and flag
\* request.
DeletedCommentStaysRedacted ==
    /\ [](\A c \in CommentIds :
             comments[c].is_deleted => comments[c].text = "[deleted]")
    /\ [][\A c \in CommentIds :
             comments[c].is_deleted => comments'[c].is_deleted]_vars

(***************************************************************************)
(* The number of changes a roster sync returns.                            *)
(***************************************************************************)
\* the local open stints' players before the run and the external ids
LocalIds == db_player_ids(history)
ExternalIds == api_player_ids(Rosters(lastSync'.roster))

\* C22 as stated: a successful run returns one change per removed player,
\* one per added player and one update per player in both sets.
SyncCountsEveryPlayerInBoth ==
    [][(SyncRan /\ lastSync'.result = "ok") =>
          lastSync'.changes = Cardinality(LocalIds \ ExternalIds)
                              + Cardinality(ExternalIds \ LocalIds)
                              + Cardinality(LocalIds \cap ExternalIds)]_vars

\* C22: a successful run returns one change per removed player, one per
\* added player and one per player in both sets whose stored jersey number
\* differs from the roster's.
SyncCountsTheDiffAndTheRenumbered ==
    [][(SyncRan /\ lastSync'.result = "ok") =>
          LET map == api_players_map(Rosters(lastSync'.roster))
              renumbered == {p \in LocalIds \cap ExternalIds :
                                /\ player_info[p].exists
                                /\ player_info[p].jersey_number # map[p].sweaterNumber}
          IN  lastSync'.changes = Cardinality(LocalIds \ ExternalIds)
                                  + Cardinality(ExternalIds \ LocalIds)
                                  + Cardinality(renumbered)]_vars

\* local {A, B}, external {B, C} with B's number as stored: one removal and
\* one addition, and B is not counted
UnchangedPlayerIsNotCounted ==
    /\ lastSync.result = "ok" /\ lastSync.roster = "BC83" /\ lastSync.changes = 2
    /\ \E h \in history : h.player_id = 1 /\ h.end_date = Some(today)
    /\ \E h \in history : h.player_id = 3 /\ h.start_date = today /\ h.end_date = None
    /\ db_player_ids(history) = {2, 3}
    /\ player_info[2].jersey_number = Some(83)

(***************************************************************************)
(* The pipeline again: what a failed retry leaves, what COMPLETE and       *)
(* videos_fetched imply, the T+0 and T+30min payloads, the recent view.    *)
(***************************************************************************)
\* C23: when the enrichment retry inside archive_game raises, the record
\* archive_game commits differs from the one before only in status, archived_at
\* and status_updated_at, and no Video row of the failed attempt is stored.
FailedRetryPersistsNothing ==
    [][\A g \in GameIds :
          (last'.op = "archive" /\ last'.game = g /\ last'.result = "ok"
              /\ last'.retry = "raised") =>
             /\ games'[g] = [games[g] EXCEPT !.status = "ARCHIVED",
                                              !.archived_at = Some(now),
                                              !.status_updated_at = Some(now)]
             /\ videos' = videos]_vars

\* C24: a game whose status is COMPLETE has videos_fetched and
\* recap_generated set and a recap text and a summary line stored.
CompleteMeansEnriched ==
    \A g \in GameIds :
        (games[g].exists /\ games[g].status = "COMPLETE") =>
            /\ games[g].videos_fetched
            /\ games[g].recap_generated
            /\ games[g].recap_text # None
            /\ games[g].summary_line # None

\* the sweep ran while the game was COMPLETE, with its recap stored
SweepRanOverACompleteGame ==
    /\ last.op = "sweep"
    /\ games[1].status = "COMPLETE"
    /\ games[1].recap_text # None
    /\ games[1].basic_stats_fetched

\* C25 as stated: archive_game retries the enrichment stage whenever the
\* game's recap_generated is false.
ArchiveRetriesWithoutRecap ==
    [][\A g \in GameIds :
          (last'.op = "archive" /\ last'.game = g /\ games[g].exists
              /\ ~games[g].recap_generated) => last'.count = 1]_vars

\* C25: archive_game retries the enrichment stage exactly when videos_fetched
\* is false; a game is ARCHIVED with recap_generated false only if the retry
\* inside archive_game raised or videos_fetched was already true (set by the
\* sweep) when archive_game ran.
ArchiveRetriesWithoutVideos ==
    [][\A g \in GameIds :
          (last'.op = "archive" /\ last'.game = g /\ games[g].exists
              /\ ~games[g].recap_generated) =>
             /\ last'.count = 1 <=> ~games[g].videos_fetched
             /\ (games'[g].status = "ARCHIVED" /\ ~games'[g].recap_generated) =>
                    (last'.retry = "raised" \/ games[g].videos_fetched)]_vars

\* a game the sweep had marked was archived without a retry and without a recap
ArchivedWithoutRecapOrRetry ==
    \E g \in GameIds :
        /\ last.op = "archive" /\ last.game = g /\ last.result = "ok"
        /\ last.count = 0 /\ last.retry = "none"
        /\ games[g].status = "ARCHIVED"
        /\ games[g].videos_fetched
        /\ ~games[g].recap_generated

\* has_videos as the recent-games view derives it
HasVideos(g) == GameSummary([games |-> games, videos |-> videos], g).data[1].has_videos

\* C26: a game with videos_fetched true has at least one Video row, and the
\* games counted by the flag are the games whose has_videos is true.
VideosFetchedMeansAVideoRow ==
    /\ \A g \in games_with_videos(games) : \E v \in videos : v.game_id = g
    /\ games_with_videos(games) = {g \in GameIds : games[g].exists /\ HasVideos(g)}

\* C27: a successful T+30min stage sets the payload's goals to the goals
\* extracted from the play-by-play, keeps the rest of the payload stored by
\* T+0 and every other field of the game; the T+4h stage hands the stored
\* goal list to the recap generation.
DetailedStatsOnlyMergesGoals ==
    [][\A g \in GameIds :
          /\ \A p \in Pbps :
                (process_game_detailed_stats(g, Some(p)) /\ games[g].exists) =>
                    /\ games'[g].raw # None
                    /\ games'[g].raw[1].goals = Some(extract_goal_details(p))
                    /\ games'[g].raw[1].box =
                          (IF games[g].raw = None THEN None ELSE games[g].raw[1].box)
                    /\ games'[g] = [games[g] EXCEPT !.raw = games'[g].raw]
          /\ (last'.op = "enrich" /\ last'.game = g /\ last'.result = "ok"
                 /\ games'[g].summary_line = Some("generated")) =>
                games'[g].recap_text =
                    Some(<<"generated",
                           IF games[g].raw = None \/ games[g].raw[1].goals = None
                              \/ games[g].raw[1].goals[1] = <<>>
                           THEN "-" ELSE games[g].raw[1].goals[1][1].scorer>>)]_vars

\* the recap was generated from the goals merged into the payload T+0 stored
RecapFromMergedGoals ==
    \E g \in GameIds :
        /\ last.op = "enrich" /\ last.game = g /\ last.result = "ok"
        /\ games[g].raw # None
        /\ games[g].raw[1].box = Some("b1")
        /\ games[g].raw[1].goals # None
        /\ games[g].recap_text = Some(<<"generated", "Eklund">>)

\* C28: the scorers process_game_immediate stores are the named players with
\* goals > 0 of every position group of both sides, in the order and equal to
\* the scorers of transform_boxscore for the same boxscore.
ScorersAreTheTransformedScorers ==
    [][\A g \in GameIds :
          (last'.op = "immediate" /\ last'.game = g /\ last'.result = "ok") =>
             /\ games'[g].raw # None /\ games'[g].raw[1].box # None
             /\ games'[g].scorers =
                   transform_boxscore(BoxscoreData(games'[g].raw[1].box[1])).scorers]_vars

\* the games GET /games/recent lists on a cache miss
Recent(tbl) ==
    LET ids == crud_get_recent_games(tbl, RecentLimit)
    IN  {ids[i] : i \in DOMAIN ids}

\* C30: a game the recent-games query returns is still returned by it after
\* the pipeline has advanced it to COMPLETE or to ARCHIVED.
FinishedGameStaysRecent ==
    [][\A g \in GameIds :
          (g \in Recent(games) /\ games'[g].exists
              /\ games'[g].status \in {"COMPLETE", "ARCHIVED"}) =>
             g \in Recent(games')]_vars

====
